---- MODULE Spec2Model ----
(* A model of the CommuPath backend (src/backend): the location-aware quest
   generation pipeline of CommunityArchitect, the place search and the place
   quality score of LocationService, the proof verification of VisionVerifier
   and the verify-proof request handler that awards points.

   Coordinates are pairs <<lat, lng>> of integers in millionths of a degree.
   Python floats that the program computes with are modelled as IEEE-754
   binary64 values with round-to-nearest-even arithmetic (the F... operators),
   on natural numbers of arbitrary size (the B... operators), because the model
   checker's own integers are 32 bits wide. *)
EXTENDS Integers, Sequences, FiniteSets, TLC

(* An optional value (a missing dict key, Python's None): None or Some(v) *)
None    == <<>>
Some(v) == <<v>>

(* Bind(e, F) is F(e) with e evaluated once. *)
Bind(e, F(_)) == CHOOSE r \in {F(v) : v \in {e}} : TRUE

(* Natural numbers of arbitrary size: little-endian sequences of limbs in base
   LimbBase = 2^LimbBits, without leading zero limbs; <<>> is zero. *)
LimbBits == 15
LimbBase == 2 ^ LimbBits

BLimb(a, i) == IF i >= 1 /\ i <= Len(a) THEN a[i] ELSE 0

RECURSIVE BTrim(_)
BTrim(a0) == Bind(a0, LAMBDA a :
    IF Len(a) > 0 /\ a[Len(a)] = 0 THEN BTrim(SubSeq(a, 1, Len(a) - 1)) ELSE a)

BNat(n) == BTrim(<<n % LimbBase, (n \div LimbBase) % LimbBase, n \div (LimbBase * LimbBase)>>)

(* st = <<a, b, i, carry, acc>> *)
RECURSIVE BAddFrom(_)
BAddFrom(st0) == Bind(st0, LAMBDA st :
    IF st[3] > Len(st[1]) /\ st[3] > Len(st[2])
    THEN IF st[4] = 0 THEN st[5] ELSE Append(st[5], st[4])
    ELSE Bind(BLimb(st[1], st[3]) + BLimb(st[2], st[3]) + st[4], LAMBDA s :
           BAddFrom(<<st[1], st[2], st[3] + 1, s \div LimbBase, Append(st[5], s % LimbBase)>>)))

BAdd(a, b) == BAddFrom(<<a, b, 1, 0, <<>>>>)

(* st = <<a, b, i>> *)
RECURSIVE BCmpFrom(_)
BCmpFrom(st0) == Bind(st0, LAMBDA st :
    IF st[3] = 0 THEN 0
    ELSE IF BLimb(st[1], st[3]) < BLimb(st[2], st[3]) THEN -1
    ELSE IF BLimb(st[1], st[3]) > BLimb(st[2], st[3]) THEN 1
    ELSE BCmpFrom(<<st[1], st[2], st[3] - 1>>))

BCmp(a0, b0) == Bind(<<a0, b0>>, LAMBDA p :
    BCmpFrom(<<p[1], p[2], IF Len(p[1]) > Len(p[2]) THEN Len(p[1]) ELSE Len(p[2])>>))

(* st = <<a, b, i, borrow, acc>>, a >= b *)
RECURSIVE BSubFrom(_)
BSubFrom(st0) == Bind(st0, LAMBDA st :
    IF st[3] > Len(st[1]) THEN BTrim(st[5])
    ELSE Bind(st[1][st[3]] - BLimb(st[2], st[3]) - st[4], LAMBDA d :
           IF d < 0 THEN BSubFrom(<<st[1], st[2], st[3] + 1, 1, Append(st[5], d + LimbBase)>>)
                    ELSE BSubFrom(<<st[1], st[2], st[3] + 1, 0, Append(st[5], d)>>)))

BSub(a, b) == BSubFrom(<<a, b, 1, 0, <<>>>>)

BOdd(a) == BLimb(a, 1) % 2 = 1

BBit(a, k) == (BLimb(a, (k \div LimbBits) + 1) \div (2 ^ (k % LimbBits))) % 2

BBitLen(a0) == Bind(a0, LAMBDA a :
    IF Len(a) = 0 THEN 0
    ELSE LimbBits * (Len(a) - 1)
         + (CHOOSE n \in 1..LimbBits : 2 ^ (n - 1) <= a[Len(a)] /\ a[Len(a)] < 2 ^ n))

(* a * 2^k *)
BShl(a0, k) == Bind(a0, LAMBDA a :
    IF Len(a) = 0 THEN a
    ELSE Bind(<<k \div LimbBits, 2 ^ (k % LimbBits)>>, LAMBDA ls :
           BTrim([i \in 1..(Len(a) + ls[1] + 1) |->
                    ((BLimb(a, i - ls[1]) * ls[2]) % LimbBase)
                    + ((BLimb(a, i - ls[1] - 1) * ls[2]) \div LimbBase)])))

(* a \div 2^k *)
BShr(a0, k) == Bind(a0, LAMBDA a :
    Bind(<<k \div LimbBits, 2 ^ (k % LimbBits)>>, LAMBDA ls :
      IF Len(a) <= ls[1] THEN <<>>
      ELSE BTrim([i \in 1..(Len(a) - ls[1]) |->
                    (BLimb(a, i + ls[1]) \div ls[2])
                    + (BLimb(a, i + ls[1] + 1) % ls[2]) * (LimbBase \div ls[2])])))

(* the number of trailing zero bits of a nonzero a *)
BLowBit(a0) == Bind(a0, LAMBDA a :
    CHOOSE k \in 0..(LimbBits * Len(a) - 1) :
        BBit(a, k) = 1 /\ \A j \in 0..(k - 1) : BBit(a, j) = 0)

(* st = <<a, d, i, carry, acc>>: a times the single limb d *)
RECURSIVE BMulLimbFrom(_)
BMulLimbFrom(st0) == Bind(st0, LAMBDA st :
    IF st[3] > Len(st[1]) THEN BTrim(Append(st[5], st[4]))
    ELSE Bind(st[1][st[3]] * st[2] + st[4], LAMBDA p :
           BMulLimbFrom(<<st[1], st[2], st[3] + 1, p \div LimbBase, Append(st[5], p % LimbBase)>>)))

(* st = <<a, b, j, acc>> *)
RECURSIVE BMulFrom(_)
BMulFrom(st0) == Bind(st0, LAMBDA st :
    IF st[3] > Len(st[2]) THEN BTrim(st[4])
    ELSE BMulFrom(<<st[1], st[2], st[3] + 1,
                    BAdd(st[4], [i \in 1..(st[3] - 1) |-> 0]
                                  \o BMulLimbFrom(<<st[1], st[2][st[3]], 1, 0, <<>>>>))>>))

BMul(a, b) == BMulFrom(<<a, b, 1, <<>>>>)

(* Short division of a by the single limb d (d nonzero), from the top limb down.
   st = <<a, d, i, remainder, quotient limbs from the top>>; the result is
   <<quotient, remainder>>. *)
RECURSIVE BDivLimbFrom(_)
BDivLimbFrom(st0) == Bind(st0, LAMBDA st :
    IF st[3] = 0 THEN <<BTrim(st[5]), st[4]>>
    ELSE Bind(st[4] * LimbBase + st[1][st[3]], LAMBDA n :
           BDivLimbFrom(<<st[1], st[2], st[3] - 1, n % st[2], <<n \div st[2]>> \o st[5]>>)))

BDivLimb(a0, d) == Bind(a0, LAMBDA a : BDivLimbFrom(<<a, d, Len(a), 0, <<>>>>))

(* A non-negative binary64 value m * 2^e as <<m, e>>, kept canonical: m odd, or
   m zero and e zero. MantBits is the precision of the significand. *)
MantBits == 53

FCanon(m0, e) == Bind(m0, LAMBDA m :
    IF Len(m) = 0 THEN <<m, 0>>
    ELSE Bind(BLowBit(m), LAMBDA z : <<BShr(m, z), e + z>>))

(* m * 2^e rounded to MantBits significant bits, to nearest, ties to even: of the
   dropped low bits, the highest decides together with whether any lower one is
   set and whether the kept part is odd. *)
FRound(m0, e) == Bind(m0, LAMBDA m :
    Bind(BBitLen(m) - MantBits, LAMBDA drop :
      IF drop <= 0 THEN FCanon(m, e)
      ELSE Bind(BShr(m, drop), LAMBDA q :
             IF BBit(m, drop - 1) = 1
                /\ (BOdd(q) \/ \E j \in 0..(drop - 2) : BBit(m, j) = 1)
             THEN FCanon(BAdd(q, <<1>>), e + drop)
             ELSE FCanon(q, e + drop))))

FInt(n) == FCanon(BNat(n), 0)

FMul(x0, y0) == Bind(<<x0, y0>>, LAMBDA p :
    FRound(BMul(p[1][1], p[2][1]), p[1][2] + p[2][2]))

FAdd(x0, y0) == Bind(<<x0, y0>>, LAMBDA p :
    Bind(IF p[1][2] < p[2][2] THEN p[1][2] ELSE p[2][2], LAMBDA e :
      FRound(BAdd(BShl(p[1][1], p[1][2] - e), BShl(p[2][1], p[2][2] - e)), e)))

(* x / y for a y whose significand is a single limb (5.0, 10.0 and 100.0 are):
   the quotient to MantBits + 3 bits or more, followed by one more low bit that
   is set when the division left a remainder. *)
FDiv(x0, y0) == Bind(<<x0, y0>>, LAMBDA p :
    IF Len(p[1][1]) = 0 THEN p[1]
    ELSE Bind(MantBits + 3 + LimbBits, LAMBDA k :
           Bind(BDivLimb(BShl(p[1][1], k), p[2][1][1]), LAMBDA qr :
             FRound(BAdd(BShl(qr[1], 1), IF qr[2] = 0 THEN <<>> ELSE <<1>>),
                    p[1][2] - p[2][2] - k - 1))))

FCmp(x0, y0) == Bind(<<x0, y0>>, LAMBDA p :
    Bind(IF p[1][2] < p[2][2] THEN p[1][2] ELSE p[2][2], LAMBDA e :
      BCmp(BShl(p[1][1], p[1][2] - e), BShl(p[2][1], p[2][2] - e))))

FMin(x0, y0) == Bind(<<x0, y0>>, LAMBDA p : IF FCmp(p[2], p[1]) < 0 THEN p[2] ELSE p[1])
(* ------------------------------------------------------------------------ *)
(* LocationService.calculate_place_quality_score                              *)

(* A formatted place is a record
     [name, address, coordinates, place_id, types, rating, user_ratings_total,
      business_status]
   with rating None or Some(tenths of a star), place_id None or Some(id), and
   types a sequence. *)

InSeq(x, s) == \E i \in 1..Len(s) : s[i] = x

(* the float a JSON number of r10 tenths parses to *)
FTenths(r10) == FDiv(FInt(r10), FInt(10))

FZero == FInt(0)
FOne  == FInt(1)

RatingWeight  == FTenths(4)
ReviewsWeight == FTenths(3)
StatusWeight  == FTenths(2)
TypeBonus     == FTenths(1)

ReviewsCap == 100

high_value_types == <<"park", "school", "hospital", "community_center">>

(* the truth value of an optional number *)
Truthy(v) == v # None /\ v[1] # 0

calculate_place_quality_score(place) ==
    Bind(IF Truthy(place.rating)
         THEN FAdd(FZero, FMul(FDiv(FTenths(place.rating[1]), FInt(5)), RatingWeight))
         ELSE FZero, LAMBDA s1 :
    Bind(IF place.user_ratings_total # 0
         THEN FAdd(s1, FMul(FDiv(FInt(IF place.user_ratings_total < ReviewsCap
                                      THEN place.user_ratings_total ELSE ReviewsCap),
                                 FInt(100)),
                            ReviewsWeight))
         ELSE s1, LAMBDA s2 :
    Bind(IF place.business_status = "OPERATIONAL" THEN FAdd(s2, StatusWeight) ELSE s2,
         LAMBDA s3 :
    Bind(IF \E i \in 1..Len(high_value_types) : InSeq(high_value_types[i], place.types)
         THEN FAdd(s3, TypeBonus) ELSE s3, LAMBDA s4 :
    FMin(s4, FOne)))))

(* ------------------------------------------------------------------------ *)
(* Exceptions: the result of a computation that may raise                     *)

Ok(v)    == [raised |-> FALSE, value |-> v]
Raise(e) == [raised |-> TRUE, error |-> e]

(* ------------------------------------------------------------------------ *)
(* models.py                                                                  *)

ResolutionCategory == {"Environment", "Social", "Education", "Health"}

Difficulty == {"Easy", "Medium", "Hard"}

(* Coordinates(lat, lng): pydantic validates the ranges and raises otherwise *)
ValidCoordinates(c) ==
    /\ c[1] >= -90000000 /\ c[1] <= 90000000
    /\ c[2] >= -180000000 /\ c[2] <= 180000000

(* a variant that clamps what is out of range *)
Coordinates_clamped(lat, lng) ==
    Ok(<<IF lat < -90000000 THEN -90000000 ELSE IF lat > 90000000 THEN 90000000 ELSE lat,
         IF lng < -180000000 THEN -180000000 ELSE IF lng > 180000000 THEN 180000000 ELSE lng>>)

Coordinates(lat, lng) ==
    IF ValidCoordinates(<<lat, lng>>) THEN Ok(<<lat, lng>>) ELSE Raise("ValidationError")

TitleMinLength == 5
TitleMaxLength == 100
DescriptionMinLength == 20

(* ImpactQuest(...): the validated quest, or ValidationError. quest_id is a fresh
   random identifier (uuid4) and carries no information. *)
ImpactQuest(title, description, difficulty, impact_metric, location, category, estimated_time, community_benefit) ==
    IF /\ Len(title) >= TitleMinLength /\ Len(title) <= TitleMaxLength
       /\ Len(description) >= DescriptionMinLength
       /\ difficulty \in Difficulty
       /\ ValidCoordinates(location)
       /\ category \in ResolutionCategory
    THEN Ok([quest_id |-> "quest_uuid", title |-> title, description |-> description,
             difficulty |-> difficulty, impact_metric |-> impact_metric,
             location |-> location, category |-> category,
             estimated_time |-> estimated_time, community_benefit |-> community_benefit])
    ELSE Raise("ValidationError")

(* ------------------------------------------------------------------------ *)
(* LocationService.find_nearby_places and _format_places                      *)

CATEGORY_PLACE_TYPES ==
    [Environment |-> <<"park", "campground", "natural_feature", "tourist_attraction">>,
     Education   |-> <<"school", "university", "library", "primary_school", "secondary_school">>,
     Health      |-> <<"hospital", "doctor", "pharmacy", "physiotherapist", "dentist">>,
     Social      |-> <<"community_center", "church", "mosque", "synagogue", "hindu_temple",
                       "town_hall">>]

(* dict.get(key, default) *)
Get(d, key, default) == IF key \in DOMAIN d THEN d[key] ELSE default

Take(s, n) == SubSeq(s, 1, IF Len(s) < n THEN Len(s) ELSE n)

MaxRadius == 50000

(* the radius the places service is queried with *)
search_radius(radius) == IF radius > MaxRadius THEN MaxRadius ELSE radius
TypesPerSearch == 2
ResultsPerType == 3

(* A raw place of the Places API is a record of the same fields as a formatted
   place, except vicinity for address and geometry for coordinates; a field
   that the response does not carry is None and one it carries is Some(v).
   geometry is None or Some([location |-> None or Some(<<lat, lng>>)]). *)

(* One raw place formatted; KeyError for a missing geometry or location,
   ValidationError from Coordinates. *)
format_place(place) ==
    IF place.geometry = None THEN Raise("KeyError")
    ELSE IF place.geometry[1].location = None THEN Raise("KeyError")
    ELSE Bind(Coordinates(place.geometry[1].location[1][1], place.geometry[1].location[1][2]),
              LAMBDA c :
           IF c.raised THEN c
           ELSE Ok([name |-> IF place.name = None THEN "Unknown Location" ELSE place.name[1],
                    address |-> IF place.vicinity = None THEN "" ELSE place.vicinity[1],
                    coordinates |-> c.value,
                    place_id |-> place.place_id,
                    types |-> IF place.types = None THEN <<>> ELSE place.types[1],
                    rating |-> place.rating,
                    user_ratings_total |-> IF place.user_ratings_total = None THEN 0
                                           ELSE place.user_ratings_total[1],
                    business_status |-> IF place.business_status = None THEN "OPERATIONAL"
                                        ELSE place.business_status[1]]))

(* The loop of _format_places from entry i on: a KeyError skips the entry, any
   other exception leaves the method. st = <<raw_places, i, formatted>> *)
RECURSIVE format_places_from(_)
format_places_from(st0) == Bind(st0, LAMBDA st :
    IF st[2] > Len(st[1]) THEN Ok(st[3])
    ELSE Bind(format_place(st[1][st[2]]), LAMBDA f :
           IF ~f.raised THEN format_places_from(<<st[1], st[2] + 1, Append(st[3], f.value)>>)
           ELSE IF f.error = "KeyError" THEN format_places_from(<<st[1], st[2] + 1, st[3]>>)
           ELSE f))

_format_places(raw_places) == format_places_from(<<raw_places, 1, <<>>>>)

(* a variant that keeps every result of a type query *)
type_query_places_uncapped(q) ==
    IF q.kind = "response" /\ q.status = "OK" /\ Len(q.results) > 0
    THEN q.results
    ELSE <<>>

(* What one places_nearby call does: it raises (kind is the exception) or
   returns a response [kind |-> "response", status, results]. The part of
   all_places one type query contributes: *)
type_query_places(q) ==
    IF q.kind = "response" /\ q.status = "OK" /\ Len(q.results) > 0
    THEN Take(q.results, ResultsPerType)
    ELSE <<>>

(* the loop over place_types[:2]; queries[i] is what the i-th call does *)
RECURSIVE all_places_from(_)
all_places_from(st0) == Bind(st0, LAMBDA st :
    IF st[2] > Len(st[1]) THEN st[3]
    ELSE all_places_from(<<st[1], st[2] + 1, st[3] \o type_query_places(st[1][st[2]])>>))

(* a variant that searches every type of the category *)
place_types_searched_all(category) ==
    Get(CATEGORY_PLACE_TYPES, category, <<"point_of_interest">>)

place_types_searched(category) ==
    Take(Get(CATEGORY_PLACE_TYPES, category, <<"point_of_interest">>), TypesPerSearch)

(* the places_nearby calls find_nearby_places makes: one per type searched, and
   none without a client *)
place_queries_issued(has_client, category) ==
    IF ~has_client THEN 0 ELSE Len(place_types_searched(category))

(* all_places after the loop, for a client whose i-th places_nearby call does
   queries[i] *)
collected_places(category, queries) ==
    all_places_from(<<Take(queries, Len(place_types_searched(category))), 1, <<>>>>)

(* a variant without the handlers of the loop: an exception of a places_nearby
   call leaves the method *)
find_nearby_places_unguarded(has_client, category, radius, max_results, queries) ==
    IF ~has_client THEN Ok(<<>>)
    ELSE IF \E i \in 1..Len(place_types_searched(category)) : queries[i].kind # "response"
    THEN Raise("ApiError")
    ELSE _format_places(Take(collected_places(category, queries), max_results))

(* find_nearby_places(center_coords, category, radius, max_results) of a service
   whose client is present (has_client) and whose i-th places_nearby call does
   queries[i]: the formatted places, or the exception that leaves it. *)
find_nearby_places(has_client, category, radius, max_results, queries) ==
    IF ~has_client THEN Ok(<<>>)
    ELSE _format_places(Take(collected_places(category, queries), max_results))

(* ------------------------------------------------------------------------ *)
(* The places of the model, as the places service lists them                 *)

RawPlace(name, vicinity, geometry, place_id, types, rating, total, status) ==
    [name |-> name, vicinity |-> vicinity, geometry |-> geometry, place_id |-> place_id,
     types |-> types, rating |-> rating, user_ratings_total |-> total,
     business_status |-> status]

At(lat, lng) == Some([location |-> Some(<<lat, lng>>)])

(* What the first type query can find *)
AgodiGardens ==
    RawPlace(Some("Agodi Gardens"), Some("Agodi GRA, Ibadan"), At(7406100, 3899800),
             Some("pid_agodi"), Some(<<"park", "tourist_attraction">>),
             Some(45), Some(250), Some("OPERATIONAL"))
BodijaMarket ==
    RawPlace(Some("Bodija Market"), Some("Bodija, Ibadan"), At(7435200, 3914100),
             Some("pid_bodija"), Some(<<"point_of_interest">>),
             Some(40), Some(50), Some("OPERATIONAL"))
BarePlace ==
    RawPlace(None, None, At(7377500, 3947000), None, None, None, None, None)

(* What the second type query can find *)
UniversityGarden ==
    RawPlace(Some("UI Botanical Garden"), Some("University of Ibadan"), At(7443300, 3896700),
             Some("pid_ui"), Some(<<"park">>), Some(50), Some(100), Some("OPERATIONAL"))
DugbeMarket ==
    RawPlace(Some("Dugbe Market"), Some("Dugbe, Ibadan"), At(7387300, 3879500),
             Some("pid_dugbe"), Some(<<"point_of_interest">>),
             Some(40), Some(50), Some("OPERATIONAL"))
NoGeometryPlace ==
    RawPlace(Some("Unmapped Camp"), Some("Ring Road"), None,
             Some("pid_unmapped"), Some(<<"campground">>), Some(30), Some(10),
             Some("CLOSED_TEMPORARILY"))
OutOfRangePlace ==
    RawPlace(Some("Polar Camp"), Some("Nowhere"), At(91000000, 3900000),
             Some("pid_polar"), Some(<<"campground">>), Some(48), Some(80),
             Some("OPERATIONAL"))

(* the places each type query can find, in the order the service lists them *)
FirstTypeCatalog  == <<BodijaMarket, BarePlace, AgodiGardens>>
SecondTypeCatalog == <<DugbeMarket, NoGeometryPlace, UniversityGarden, OutOfRangePlace>>

(* ------------------------------------------------------------------------ *)
(* LocationService.reverse_geocode and its lru_cache                          *)

(* round(x, 4) of a number of millionths: the nearest multiple of 100, a tie
   going to the even multiple *)
Round4(x) ==
    IF x % 100 > 50 \/ (x % 100 = 50 /\ (x \div 100) % 2 = 1)
    THEN ((x \div 100) + 1) * 100
    ELSE (x \div 100) * 100

CacheMaxSize == 1000

(* The cache of reverse_geocode_cached: a sequence of [key, value] entries, the
   least recently used first. *)
CacheIndex(cache, key) ==
    IF \E i \in 1..Len(cache) : cache[i].key = key
    THEN CHOOSE i \in 1..Len(cache) : cache[i].key = key
    ELSE 0

SeqRemove(s, i) == SubSeq(s, 1, i - 1) \o SubSeq(s, i + 1, Len(s))

(* a variant in which a hit is no use: the entry keeps its place *)
CacheHit_untouched(cache, i) == cache

CacheHit(cache, i) == Append(SeqRemove(cache, i), cache[i])

CacheInsert(cache, key, value) ==
    Append(IF Len(cache) >= CacheMaxSize THEN Tail(cache) ELSE cache,
           [key |-> key, value |-> value])

(* what the lru_cache wrapper does with the value its function returned: the
   key may have been added while the function ran, and is then left as it is *)
lru_store_unchecked(cache, key, value) == CacheInsert(cache, key, value)

lru_store(cache, key, value) ==
    IF CacheIndex(cache, key) > 0 THEN cache ELSE CacheInsert(cache, key, value)

(* The first address component tagged neighborhood or sublocality, over all
   results in order: None, or Some(component). *)
first_named_component(results) ==
    LET hits == {<<i, j>> \in UNION {{i} \X (1..Len(results[i].address_components))
                                       : i \in 1..Len(results)} :
                    \/ InSeq("neighborhood", results[i].address_components[j].types)
                    \/ InSeq("sublocality", results[i].address_components[j].types)}
    IN  IF hits = {} THEN None
        ELSE Bind(CHOOSE h \in hits : \A g \in hits :
                        h[1] < g[1] \/ (h[1] = g[1] /\ h[2] <= g[2]),
                  LAMBDA h : Some(results[h[1]].address_components[h[2]]))

(* exceptions that are no subclass of Exception: except Exception lets them by *)
BaseExceptionsOnly == {"SystemExit", "KeyboardInterrupt", "GeneratorExit"}

(* The try block of reverse_geocode_cached for what the geocoding call does:
   geo is [kind |-> an exception] or [kind |-> "results", results |-> ...], a
   result being [address_components, formatted_address], formatted_address
   None or Some(the comma-separated segments), the long_name of a component
   None (the key is missing) or Some(name). Ok(None or Some(name)), or the
   exception raised in the block. *)
geocode_lookup(geo) ==
    IF geo.kind # "results" THEN Raise(geo.kind)
    ELSE IF Len(geo.results) = 0 THEN Ok(None)
    ELSE Bind(first_named_component(geo.results), LAMBDA c :
           IF c # None
           THEN (IF c[1].long_name = None THEN Raise("KeyError") ELSE Ok(c[1].long_name))
           ELSE IF geo.results[1].formatted_address # None
                   /\ Len(geo.results[1].formatted_address[1]) > 0
                THEN Ok(Some(geo.results[1].formatted_address[1][1]))
                ELSE Ok(None))

(* a variant whose only handler is the one for ApiError *)
reverse_geocode_cached_api_errors_only(has_client, geo) ==
    IF ~has_client THEN Ok(None)
    ELSE Bind(geocode_lookup(geo), LAMBDA found :
           IF found.raised /\ found.error = "ApiError" THEN Ok(None) ELSE found)

(* The body of reverse_geocode_cached: its handlers turn every Exception into
   None *)
(* a variant without the except clauses *)
reverse_geocode_cached_unhandled(has_client, geo) ==
    IF ~has_client THEN Ok(None) ELSE geocode_lookup(geo)

reverse_geocode_cached(has_client, geo) ==
    IF ~has_client THEN Ok(None)
    ELSE Bind(geocode_lookup(geo), LAMBDA found :
           IF found.raised /\ found.error \notin BaseExceptionsOnly THEN Ok(None) ELSE found)

(* a variant that keys the cache by the coordinates as given *)
reverse_geocode_unrounded(cache, has_client, lat, lng, geo) ==
    Bind(<<lat, lng>>, LAMBDA key :
      Bind(CacheIndex(cache, key), LAMBDA i :
        IF i > 0 THEN <<Ok(cache[i].value), CacheHit(cache, i), FALSE>>
        ELSE Bind(reverse_geocode_cached(has_client, geo), LAMBDA v :
               <<v, IF v.raised THEN cache ELSE CacheInsert(cache, key, v.value),
                 has_client>>)))

(* a variant whose cache keeps names only *)
reverse_geocode_names_only(cache, has_client, lat, lng, geo) ==
    Bind(<<Round4(lat), Round4(lng)>>, LAMBDA key :
      Bind(CacheIndex(cache, key), LAMBDA i :
        IF i > 0 THEN <<Ok(cache[i].value), CacheHit(cache, i), FALSE>>
        ELSE Bind(reverse_geocode_cached(has_client, geo), LAMBDA v :
               <<v, IF v.raised \/ v.value = None THEN cache
                    ELSE CacheInsert(cache, key, v.value),
                 has_client>>)))

(* reverse_geocode(lat, lng): <<what the call does, Ok(the value returned) or the
   exception, the cache afterwards, whether the geocoding service was called>>.
   lru_cache stores what the body returns, None included, and nothing when the
   body raises. *)
reverse_geocode(cache, has_client, lat, lng, geo) ==
    Bind(<<Round4(lat), Round4(lng)>>, LAMBDA key :
      Bind(CacheIndex(cache, key), LAMBDA i :
        IF i > 0 THEN <<Ok(cache[i].value), CacheHit(cache, i), FALSE>>
        ELSE Bind(reverse_geocode_cached(has_client, geo), LAMBDA v :
               <<v, IF v.raised THEN cache ELSE CacheInsert(cache, key, v.value),
                 has_client>>)))

(* ------------------------------------------------------------------------ *)
(* CommunityArchitect (agents.py)                                             *)

SearchRadius  == 3000
MaxCandidates == 5
PlacesOffered == 3

(* sorted(places, key=calculate_place_quality_score, reverse=True): a stable
   sort, so places of equal score keep their order. *)

(* The scores of the places of the model, computed once *)
CatalogScores ==
    [p \in {f.value : f \in {g \in {format_place(FirstTypeCatalog[i]) :
                                      i \in 1..Len(FirstTypeCatalog)}
                                 \cup {format_place(SecondTypeCatalog[i]) :
                                         i \in 1..Len(SecondTypeCatalog)} : ~g.raised}}
       |-> calculate_place_quality_score(p)]

(* the sort key: lambda p: calculate_place_quality_score(p) *)
quality_key(place) ==
    IF place \in DOMAIN CatalogScores THEN CatalogScores[place]
    ELSE calculate_place_quality_score(place)

(* st = <<sorted so far, place, i, key>>: the place goes before the first
   element from i on whose key is lower than its own *)
RECURSIVE insert_by_quality(_)
insert_by_quality(st0) == Bind(st0, LAMBDA st :
    IF st[3] > Len(st[1]) THEN Append(st[1], st[2])
    ELSE IF FCmp(st[4][st[1][st[3]]], st[4][st[2]]) < 0
         THEN SubSeq(st[1], 1, st[3] - 1) \o <<st[2]>> \o SubSeq(st[1], st[3], Len(st[1]))
         ELSE insert_by_quality(<<st[1], st[2], st[3] + 1, st[4]>>))

(* st = <<places, i, sorted so far, key>> *)
RECURSIVE sort_from(_)
sort_from(st0) == Bind(st0, LAMBDA st :
    IF st[2] > Len(st[1]) THEN st[3]
    ELSE sort_from(<<st[1], st[2] + 1,
                     insert_by_quality(<<st[3], st[1][st[2]], 1, st[4]>>), st[4]>>))

(* a variant that sorts in ascending order and reverses the outcome, which
   turns the order of places of equal score around *)
ranked_by_quality_reversed(places) ==
    sort_from(<<[i \in 1..Len(places) |-> places[Len(places) + 1 - i]], 1, <<>>,
                [p \in {places[i] : i \in 1..Len(places)} |-> quality_key(p)]>>)

(* the key of each place is computed once, as sorted() does *)
ranked_by_quality(places) ==
    sort_from(<<places, 1, <<>>,
                [p \in {places[i] : i \in 1..Len(places)} |-> quality_key(p)]>>)

(* A response of the generative service: [kind |-> "raises"], or
   [kind |-> "text", data |-> None] for a text json.loads rejects, or
   [kind |-> "text", data |-> Some(quest_data)]. quest_data is a record of the
   fields of the response schema, each None (the key is missing) or Some(v);
   selected_location_index is a JSON value, [type, int] or [type, str]. *)
JInt(n) == [type |-> "int", int |-> n]
JStr(t) == [type |-> "str", str |-> t]

Max(a, b) == IF a > b THEN a ELSE b
Min(a, b) == IF a < b THEN a ELSE b

(* max(0, min(selected_index, len(ranked_places) - 1)) *)
bounds_check(selected_index, ranked_places) ==
    Max(0, Min(selected_index, Len(ranked_places) - 1))

(* the quest built from quest_data at a location: KeyError for a missing
   required key, ValueError for a difficulty outside the enum, ValidationError
   from ImpactQuest *)
quest_from_data(quest_data, location, category) ==
    IF \/ quest_data.title = None \/ quest_data.description = None
       \/ quest_data.difficulty = None \/ quest_data.impact_metric = None
    THEN Raise("KeyError")
    ELSE IF quest_data.difficulty[1] \notin Difficulty THEN Raise("ValueError")
    ELSE ImpactQuest(quest_data.title[1], quest_data.description[1],
                     quest_data.difficulty[1], quest_data.impact_metric[1],
                     location, category,
                     quest_data.estimated_time, quest_data.community_benefit)

(* quest_data.get("selected_location_index", 0) *)
selected_location_index(quest_data) ==
    IF quest_data.selected_location_index = None THEN JInt(0)
    ELSE quest_data.selected_location_index[1]

(* a variant that describes the top-ranked place whatever place was selected *)
real_place_outcome_top_metadata(ranked_places, response, category) ==
    IF response.kind = "raises" THEN Raise("TransportError")
    ELSE IF response.data = None THEN Raise("JSONDecodeError")
    ELSE Bind(response.data[1], LAMBDA quest_data :
      Bind(selected_location_index(quest_data), LAMBDA index :
        IF index.type # "int" THEN Raise("TypeError")
        ELSE Bind(bounds_check(index.int, ranked_places), LAMBDA selected_index :
          Bind(ranked_places[selected_index + 1], LAMBDA selected_place :
            Bind(quest_from_data(quest_data, selected_place.coordinates, category),
                 LAMBDA quest :
              IF quest.raised THEN quest
              ELSE Ok([quest |-> quest.value,
                       location_name |-> ranked_places[1].name,
                       location_address |-> ranked_places[1].address,
                       place_id |-> ranked_places[1].place_id]))))))

(* The try block of generate_quest (STEP 5 to 7) for what the generative call
   does: the dict [quest, location_name, location_address, place_id] it
   returns, or the exception. *)
real_place_outcome(ranked_places, response, category) ==
    IF response.kind = "raises" THEN Raise("TransportError")
    ELSE IF response.data = None THEN Raise("JSONDecodeError")
    ELSE Bind(response.data[1], LAMBDA quest_data :
      Bind(selected_location_index(quest_data), LAMBDA index :
        IF index.type # "int" THEN Raise("TypeError")
        ELSE Bind(bounds_check(index.int, ranked_places), LAMBDA selected_index :
          Bind(ranked_places[selected_index + 1], LAMBDA selected_place :
            Bind(quest_from_data(quest_data, selected_place.coordinates, category),
                 LAMBDA quest :
              IF quest.raised THEN quest
              ELSE Ok([quest |-> quest.value,
                       location_name |-> selected_place.name,
                       location_address |-> selected_place.address,
                       place_id |-> selected_place.place_id]))))))

DefaultLocationName == "Ibadan, Nigeria"

fallback_quests ==
    [Environment |->
       [title |-> "Community Park Cleanup",
        description |-> "Organize a cleanup event at a local park. Remove litter, plant flowers, and create a cleaner environment for everyone.",
        impact_metric |-> "Clean 200 sq meters of public space",
        estimated_time |-> "2-3 hours"],
     Social |->
       [title |-> "Community Meal Sharing",
        description |-> "Organize a community meal event where neighbors can share food and connect. Promote social cohesion and reduce isolation.",
        impact_metric |-> "Bring together 20+ community members",
        estimated_time |-> "3-4 hours"],
     Education |->
       [title |-> "Free Tutoring Sessions",
        description |-> "Provide free tutoring to local students in math or reading. Help improve academic performance in your community.",
        impact_metric |-> "Tutor 5-10 students for 2 weeks",
        estimated_time |-> "2 hours per week"],
     Health |->
       [title |-> "Community Fitness Walk",
        description |-> "Organize weekly walking groups to promote physical activity and wellness in your community.",
        impact_metric |-> "15+ participants per walk",
        estimated_time |-> "1 hour per session"]]

FallbackBenefit == "Strengthens community bonds and creates positive local impact"

(* a variant whose table has no template for Health *)
_generate_fallback_quest_without_health(coordinates, resolution_category) ==
    IF resolution_category \notin {"Environment", "Social", "Education"} THEN Raise("KeyError")
    ELSE Bind(fallback_quests[resolution_category], LAMBDA template :
           ImpactQuest(template.title, template.description, "Medium",
                       template.impact_metric, coordinates, resolution_category,
                       Some(template.estimated_time), Some(FallbackBenefit)))

(* a variant whose quests are Easy *)
_generate_fallback_quest_easy(coordinates, resolution_category) ==
    IF resolution_category \notin DOMAIN fallback_quests THEN Raise("KeyError")
    ELSE Bind(fallback_quests[resolution_category], LAMBDA template :
           ImpactQuest(template.title, template.description, "Easy",
                       template.impact_metric, coordinates, resolution_category,
                       Some(template.estimated_time), Some(FallbackBenefit)))

(* _generate_fallback_quest: the template quest, or the exception it raises *)
_generate_fallback_quest(coordinates, resolution_category) ==
    IF resolution_category \notin DOMAIN fallback_quests THEN Raise("KeyError")
    ELSE Bind(fallback_quests[resolution_category], LAMBDA template :
           ImpactQuest(template.title, template.description, "Medium",
                       template.impact_metric, coordinates, resolution_category,
                       Some(template.estimated_time), Some(FallbackBenefit)))

(* a variant that places the quest at the rounded coordinates *)
traditional_quest_at_rounded(response, coordinates, category) ==
    IF response.kind = "raises" THEN Raise("TransportError")
    ELSE IF response.data = None THEN Raise("JSONDecodeError")
    ELSE quest_from_data(response.data[1],
                         <<Round4(coordinates[1]), Round4(coordinates[2])>>, category)

(* The quest of the try block of _generate_quest_traditional, before the
   reverse geocode: the quest at the search coordinates, or the exception *)
traditional_quest(response, coordinates, category) ==
    IF response.kind = "raises" THEN Raise("TransportError")
    ELSE IF response.data = None THEN Raise("JSONDecodeError")
    ELSE quest_from_data(response.data[1], coordinates, category)

(* a variant that reports the location name as the address too *)
traditional_result_with_address(quest, location_name) ==
    [quest |-> quest,
     location_name |-> IF location_name = None \/ location_name = Some("")
                       THEN DefaultLocationName ELSE location_name[1],
     location_address |-> IF location_name = None \/ location_name = Some("")
                          THEN DefaultLocationName ELSE location_name[1],
     place_id |-> None]

(* the dict _generate_quest_traditional returns around the generated quest *)
traditional_result(quest, location_name) ==
    [quest |-> quest,
     location_name |-> IF location_name = None \/ location_name = Some("")
                       THEN DefaultLocationName ELSE location_name[1],
     location_address |-> "",
     place_id |-> None]

(* the dict its except branch returns around the hardcoded quest *)
fallback_result(fallback_quest) ==
    [quest |-> fallback_quest,
     location_name |-> DefaultLocationName,
     location_address |-> "",
     place_id |-> None]

(* ------------------------------------------------------------------------ *)
(* The inputs of the model                                                    *)

(* Search centers: (7.377512, 3.947012) and (7.3775, 3.9470) *)
Centers == {<<7377512, 3947012>>, <<7377500, 3947000>>}

(* the elements of catalog at the positions T, in the order of the catalog *)
Listing(catalog, T) ==
    [k \in 1..Cardinality(T) |->
       catalog[CHOOSE i \in T : Cardinality({j \in T : j < i}) = k - 1]]

(* what a places_nearby call can do, finding places of a catalog *)
QueryOutcomes(catalog) ==
    {[kind |-> "ApiError"], [kind |-> "Timeout"], [kind |-> "TransportError"],
     [kind |-> "response", status |-> "ZERO_RESULTS", results |-> <<>>],
     [kind |-> "response", status |-> "OVER_QUERY_LIMIT", results |-> <<>>]}
    \cup {[kind |-> "response", status |-> "OK", results |-> Listing(catalog, T)] :
             T \in SUBSET (1..Len(catalog))}

QuestData(index, title, description, difficulty, impact_metric, time, benefit) ==
    [selected_location_index |-> index, title |-> title, description |-> description,
     difficulty |-> difficulty, impact_metric |-> impact_metric,
     estimated_time |-> time, community_benefit |-> benefit]

GoodTitle       == "Clean Up Agodi Gardens Water Feature"
GoodDescription == "Organize a community cleanup of the pond area."
GoodMetric      == "Remove 100kg of waste"

GoodData(index, difficulty) ==
    QuestData(index, Some(GoodTitle), Some(GoodDescription), Some(difficulty),
              Some(GoodMetric), Some("4 hours"), Some("Cleaner recreational space"))

IndexValues == {-1, 0, 1, 2, 3, 4, 7}

(* the quest_data of responses of the generative service: well-formed ones,
   and ones with one defect each *)
WellFormedData ==
    {GoodData(Some(JInt(i)), "Hard") : i \in IndexValues}
    \cup {GoodData(Some(JInt(0)), d) : d \in Difficulty}
    \cup {GoodData(None, "Easy"),
           QuestData(Some(JInt(1)), Some(GoodTitle), Some(GoodDescription), Some("Easy"),
                     Some(GoodMetric), None, None)}

DefectiveData ==
    {GoodData(Some(JStr("two")), "Easy"),
     QuestData(Some(JInt(1)), None, Some(GoodDescription), Some("Easy"), Some(GoodMetric),
               None, None),
     QuestData(Some(JInt(1)), Some("Hi"), Some(GoodDescription), Some("Easy"),
               Some(GoodMetric), None, None),
     QuestData(Some(JInt(1)), Some(GoodTitle), None, Some("Easy"), Some(GoodMetric),
               None, None),
     QuestData(Some(JInt(1)), Some(GoodTitle), Some("Too short"), Some("Easy"),
               Some(GoodMetric), None, None),
     QuestData(Some(JInt(1)), Some(GoodTitle), Some(GoodDescription), None,
               Some(GoodMetric), None, None),
     QuestData(Some(JInt(1)), Some(GoodTitle), Some(GoodDescription), Some("Extreme"),
               Some(GoodMetric), None, None),
     QuestData(Some(JInt(1)), Some(GoodTitle), Some(GoodDescription), Some("Easy"),
               None, None, None)}

GenerativeResponses ==
    {[kind |-> "raises"], [kind |-> "text", data |-> None]}
    \cup {[kind |-> "text", data |-> Some(d)] : d \in WellFormedData \cup DefectiveData}

(* how the generative call went *)
response_kind(response, outcome) ==
    IF response.kind = "raises" THEN "raised"
    ELSE IF response.data = None THEN "unparsable"
    ELSE IF outcome.raised THEN "invalid"
    ELSE "ok"

Component(types, long_name) == [types |-> types, long_name |-> long_name]

(* what a geocoding call can do *)
GeocodeOutcomes ==
    {[kind |-> "ApiError"],
     [kind |-> "results", results |-> <<>>],
     [kind |-> "results",
      results |-> <<[address_components |->
                       <<Component(<<"route">>, Some("Awolowo Avenue")),
                         Component(<<"neighborhood", "political">>, Some("Bodija"))>>,
                     formatted_address |-> Some(<<"12 Awolowo Avenue", "Ibadan", "Nigeria">>)]>>],
     [kind |-> "results",
      results |-> <<[address_components |-> <<Component(<<"route">>, Some("Awolowo Avenue"))>>,
                     formatted_address |-> Some(<<"12 Awolowo Avenue", "Ibadan", "Nigeria">>)]>>]}

(* the arguments of find_nearby_places called on its own: a category the
   service does not know among them *)
SearchCategories == {"Environment", "Health", "Wildlife"}
MaxResultsValues == {0, 1, 2, 3, 5, 6, 7}

(* what a geocoding call can do on a LocationService used on its own: also a
   timeout, and a neighborhood component that carries no long_name *)
GeocodeCalls ==
    GeocodeOutcomes
    \cup {[kind |-> "Timeout"],
          [kind |-> "results",
           results |-> <<[address_components |-> <<Component(<<"neighborhood">>, None)>>,
                          formatted_address |-> Some(<<"12 Awolowo Avenue", "Ibadan">>)]>>]}

(* the coordinates reverse_geocode is called with: the two search centers round
   to the same 4 decimals, (-7.377551, 3.947012) to others *)
GeocodePoints == Centers \cup {<<-7377551, 3947012>>}

(* the responses of the generative service to the traditional prompt *)
TraditionalResponses ==
    {[kind |-> "raises"], [kind |-> "text", data |-> None],
     [kind |-> "text", data |-> Some(GoodData(None, "Easy"))],
     [kind |-> "text", data |-> Some(GoodData(None, "Hard"))],
     [kind |-> "text",
      data |-> Some(QuestData(None, Some(GoodTitle), Some(GoodDescription), Some("Medium"),
                              Some(GoodMetric), None, None))],
     [kind |-> "text",
      data |-> Some(QuestData(None, Some("Hi"), Some(GoodDescription), Some("Easy"),
                              Some(GoodMetric), None, None))],
     [kind |-> "text",
      data |-> Some(QuestData(None, Some(GoodTitle), Some(GoodDescription), Some("Extreme"),
                              Some(GoodMetric), None, None))],
     [kind |-> "text",
      data |-> Some(QuestData(None, Some(GoodTitle), Some(GoodDescription), Some("Easy"),
                              None, None, None))]}

(* ------------------------------------------------------------------------ *)
(* VisionVerifier.verify_quest_proof (vision_agent.py)                        *)

(* A number of a JSON text, in hundredths *)
JNum(h) == [type |-> "num", hundredths |-> h]

(* What generate_content does is [kind |-> "raises"] or [kind |-> "text",
   eval |-> what eval(response.text) does]: Raise(e), or Ok(value), the value
   a dict [type |-> "dict"] of the fields of the response schema, each None
   (the key is missing) or Some(v), or a value that is no dict. *)
VisionDict(confidence, verdict, reasoning, points, observations) ==
    [type |-> "dict", confidence_score |-> confidence, verification_result |-> verdict,
     reasoning |-> reasoning, suggested_points |-> points,
     key_observations |-> observations]

(* the try block: the dict it returns, or the exception raised in it *)
verification_attempt(image_readable, response) ==
    IF ~image_readable THEN Raise("FileNotFoundError")
    ELSE IF response.kind = "raises" THEN Raise("TransportError")
    ELSE IF response.eval.raised THEN response.eval
    ELSE Bind(response.eval.value, LAMBDA r :
      IF r.type # "dict" THEN Raise("TypeError")
      ELSE IF r.verification_result = None \/ r.confidence_score = None THEN Raise("KeyError")
      ELSE IF r.confidence_score[1].type # "num" THEN Raise("ValueError")
      ELSE IF r.suggested_points = None \/ r.reasoning = None THEN Raise("KeyError")
      ELSE Ok([confidence_score |-> r.confidence_score[1].hundredths,
               verification_result |-> r.verification_result[1],
               reasoning |-> r.reasoning[1],
               suggested_points |-> r.suggested_points[1],
               key_observations |-> IF r.key_observations = None THEN <<>>
                                    ELSE r.key_observations[1]]))

(* the generate_content calls of the try block: the call follows the read of
   the image file *)
vision_calls_made(image_readable) == IF image_readable THEN 1 ELSE 0

(* the dict of the except branch *)
verification_fallback(e) ==
    [confidence_score |-> 0,
     verification_result |-> "Unclear",
     reasoning |-> <<"Error during verification: ", e, ". Please try again.">>,
     suggested_points |-> 0,
     key_observations |-> <<>>]

(* a variant that derives the verdict from the confidence *)
verify_quest_proof_by_policy(image_readable, response) ==
    Bind(verification_attempt(image_readable, response), LAMBDA attempt :
      IF ~attempt.raised
      THEN Ok([attempt.value EXCEPT !.verification_result =
                 IF attempt.value.confidence_score > 70 THEN "Verified"
                 ELSE IF attempt.value.confidence_score >= 30 THEN "Unclear"
                 ELSE "Rejected"])
      ELSE IF attempt.error \in BaseExceptionsOnly THEN attempt
      ELSE Ok(verification_fallback(attempt.error)))

(* verify_quest_proof: Ok(the dict returned) or the exception that leaves it *)
verify_quest_proof(image_readable, response) ==
    Bind(verification_attempt(image_readable, response), LAMBDA attempt :
      IF ~attempt.raised THEN attempt
      ELSE IF attempt.error \in BaseExceptionsOnly THEN attempt
      ELSE Ok(verification_fallback(attempt.error)))

(* the inputs: confidences in hundredths, verdicts, points *)
Confidences == {-10, 0, 29, 30, 50, 70, 71, 100, 150}
Verdicts    == {"Verified", "Unclear", "Rejected", "Maybe"}
PointValues == {0, 50, 250}

VisionResponses ==
    {[kind |-> "raises"]}
    \cup {[kind |-> "text", eval |-> Raise(e)] :
             e \in {"SyntaxError", "NameError", "TypeError", "SystemExit"}}
    \cup {[kind |-> "text", eval |-> Ok([type |-> "list"])]}
    \cup {[kind |-> "text",
           eval |-> Ok(VisionDict(Some(JNum(c)), Some(v), Some("The image shows the work."),
                                  Some(p), o))] :
             c \in Confidences, v \in Verdicts, p \in PointValues,
             o \in {None, Some(<<"litter bags", "volunteers">>)}}
    \cup {[kind |-> "text", eval |-> Ok(d)] :
             d \in {VisionDict(None, Some("Verified"), Some("Fine."), Some(50), None),
                    VisionDict(Some(JStr("0.9")), Some("Verified"), Some("Fine."), Some(50), None),
                    VisionDict(Some(JNum(90)), None, Some("Fine."), Some(50), None),
                    VisionDict(Some(JNum(90)), Some("Verified"), None, Some(50), None),
                    VisionDict(Some(JNum(90)), Some("Verified"), Some("Fine."), None, None)}}

(* ------------------------------------------------------------------------ *)
(* SafetyEvaluator.score and AppropriatenessEvaluator.score (evaluators.py)   *)

(* the float a JSON number of h hundredths parses to *)
FHundredths(h) == FDiv(FInt(h), FInt(100))

(* What the generate_content call of a judge does is [kind |-> "raises"], or
   [kind |-> "text", data |-> None] for a text json.loads rejects, or
   [kind |-> "text", data |-> Some(value)], the value a dict
   [type |-> "dict", score, reason], each None (the key is missing) or Some(v),
   a score being JNum(h), a string or null, or a value that is no dict. *)
JNull == [type |-> "null"]

ScoreResult(name, value, reason) == [name |-> name, value |-> value, reason |-> reason]

(* the try block of both score methods: the ScoreResult of the normalized
   score, or the exception raised in it *)
judged_score(name, response) ==
    IF response.kind = "raises" THEN Raise("TransportError")
    ELSE IF response.data = None THEN Raise("JSONDecodeError")
    ELSE Bind(response.data[1], LAMBDA r :
      IF r.type # "dict" THEN Raise("TypeError")
      ELSE IF r.score = None THEN Raise("KeyError")
      ELSE IF r.score[1].type # "num" THEN Raise("TypeError")
      ELSE IF r.reason = None THEN Raise("KeyError")
      ELSE Ok(ScoreResult(name, FDiv(FHundredths(r.score[1].hundredths), FInt(100)),
                          r.reason[1])))

SafetyDefault == FTenths(8)

AppropriatenessDefault == FHundredths(85)

(* a variant whose fallback is the other metric's *)
SafetyEvaluator_score_other_default(name, response) ==
    Bind(judged_score(name, response), LAMBDA judged :
      IF ~judged.raised \/ judged.error \in BaseExceptionsOnly THEN judged
      ELSE Ok(ScoreResult(name, AppropriatenessDefault,
                          <<"Evaluation failed, assuming moderately safe: ", judged.error>>)))

(* SafetyEvaluator(name).score(output) *)
SafetyEvaluator_score(name, response) ==
    Bind(judged_score(name, response), LAMBDA judged :
      IF ~judged.raised \/ judged.error \in BaseExceptionsOnly THEN judged
      ELSE Ok(ScoreResult(name, SafetyDefault,
                          <<"Evaluation failed, assuming moderately safe: ", judged.error>>)))

(* AppropriatenessEvaluator(name).score(output) *)
AppropriatenessEvaluator_score(name, response) ==
    Bind(judged_score(name, response), LAMBDA judged :
      IF ~judged.raised \/ judged.error \in BaseExceptionsOnly THEN judged
      ELSE Ok(ScoreResult(name, AppropriatenessDefault,
                          <<"Evaluation unavailable: ", judged.error>>)))

Evaluators == {"safety_evaluator", "appropriateness_evaluator"}

(* scores of the judge, in hundredths: 0 to 100, and 150 *)
JudgeScores == {0, 100, 3300, 5000, 7999, 8000, 8500, 8550, 9900, 10000, 15000}

JudgeDict(score, reason) == [type |-> "dict", score |-> score, reason |-> reason]

JudgeResponses ==
    {[kind |-> "raises"], [kind |-> "text", data |-> None],
     [kind |-> "text", data |-> Some([type |-> "list"])]}
    \cup {[kind |-> "text", data |-> Some(JudgeDict(Some(JNum(h)), Some(r)))] :
             h \in JudgeScores,
             r \in {"Safe and feasible for volunteers.", "Respectful of local customs.", ""}}
    \cup {[kind |-> "text", data |-> Some(d)] :
             d \in {JudgeDict(None, Some("No score given.")),
                    JudgeDict(Some(JStr("85")), Some("Respectful.")),
                    JudgeDict(Some(JNull), Some("Respectful.")),
                    JudgeDict(Some(JNum(8500)), None)}}

(* ------------------------------------------------------------------------ *)
(* POST /api/verify-quest-proof (main.py, file_utils.py, crud.py)             *)

ALLOWED_MIME_TYPES == {"image/jpeg", "image/jpg", "image/png", "image/webp", "image/gif"}
MAX_FILE_SIZE == 10485760

(* f"image/{extension}" for the extensions of the fallback *)
ExtensionMime ==
    [jpg |-> "image/jpg", jpeg |-> "image/jpeg", png |-> "image/png",
     webp |-> "image/webp", gif |-> "image/gif"]

(* a variant without the two checks of the file size *)
validate_image_file_any_size(file) ==
    IF file.magic = None /\ file.extension \notin DOMAIN ExtensionMime
    THEN Raise("HTTP_400")
    ELSE IF (IF file.magic = None THEN ExtensionMime[file.extension] ELSE file.magic[1])
              \notin ALLOWED_MIME_TYPES
         THEN Raise("HTTP_415")
    ELSE Ok(TRUE)

(* An upload is [size, magic, extension]: magic is Some(the MIME type
   magic.from_buffer finds) or None when it raises. validate_image_file returns
   or raises an HTTPException. *)
validate_image_file(file) ==
    IF file.size > MAX_FILE_SIZE THEN Raise("HTTP_413")
    ELSE IF file.size = 0 THEN Raise("HTTP_400")
    ELSE IF file.magic = None /\ file.extension \notin DOMAIN ExtensionMime
         THEN Raise("HTTP_400")
    ELSE IF (IF file.magic = None THEN ExtensionMime[file.extension] ELSE file.magic[1])
              \notin ALLOWED_MIME_TYPES
         THEN Raise("HTTP_415")
    ELSE Ok(TRUE)

(* a variant whose tiers start above the thresholds *)
update_user_points_above(users_table, user_id, points_to_add, increment_quests) ==
    IF user_id \notin DOMAIN users_table THEN users_table
    ELSE Bind(users_table[user_id].points + points_to_add, LAMBDA new_points :
           [users_table EXCEPT ![user_id] =
              [points |-> new_points,
               completed_quests |-> IF increment_quests THEN @.completed_quests + 1
                                    ELSE @.completed_quests,
               impact_level |-> IF new_points > 1000 THEN "Legend"
                                ELSE IF new_points > 500 THEN "Hero"
                                ELSE IF new_points > 200 THEN "Rising Star"
                                ELSE "Novice"]])

(* crud.update_user_points on the users table, a function from user ids to
   [points, completed_quests, impact_level] *)
update_user_points(users_table, user_id, points_to_add, increment_quests) ==
    IF user_id \notin DOMAIN users_table THEN users_table
    ELSE Bind(users_table[user_id].points + points_to_add, LAMBDA new_points :
           [users_table EXCEPT ![user_id] =
              [points |-> new_points,
               completed_quests |-> IF increment_quests THEN @.completed_quests + 1
                                    ELSE @.completed_quests,
               impact_level |-> IF new_points >= 1000 THEN "Legend"
                                ELSE IF new_points >= 500 THEN "Hero"
                                ELSE IF new_points >= 200 THEN "Rising Star"
                                ELSE "Novice"]])

(* crud.update_quest_status on the quests table, a function from quest ids to
   [title, description, category, status, assigned_to, completed_at] *)
update_quest_status(quests_table, quest_id, new_status) ==
    IF quest_id \notin DOMAIN quests_table THEN quests_table
    ELSE [quests_table EXCEPT ![quest_id] =
            [@ EXCEPT !.status = new_status,
                      !.completed_at = IF new_status = "Completed" THEN Some("utcnow")
                                       ELSE @]]

(* crud.update_quest_status called with assigned_to, None or Some(user id) *)
update_quest_status_assigned(quests_table, quest_id, new_status, assigned_to) ==
    IF quest_id \notin DOMAIN quests_table THEN quests_table
    ELSE [update_quest_status(quests_table, quest_id, new_status) EXCEPT
            ![quest_id].assigned_to = IF assigned_to # None THEN assigned_to ELSE @]

(* crud.create_submission: the row added to quest_submissions *)
create_submission(quest_id, user_id, image_path, description, confidence_score, verification_result, ai_reasoning, points_awarded) ==
    [quest_id |-> quest_id, user_id |-> user_id, image_path |-> image_path,
     description |-> description, confidence_score |-> confidence_score,
     verification_result |-> verification_result, ai_reasoning |-> ai_reasoning,
     points_awarded |-> points_awarded]

(* a variant that awards on the confidence instead of the verdict *)
award_if_confident(db, user_id, quest_id, verification_result) ==
    IF verification_result.confidence_score > 70
    THEN [users |-> update_user_points(db.users, user_id,
                                       verification_result.suggested_points, TRUE),
          quests |-> update_quest_status(db.quests, quest_id, "Completed")]
    ELSE db

(* "Award points if verified": the users and quests tables afterwards *)
award_if_verified(db, user_id, quest_id, verification_result) ==
    IF verification_result.verification_result = "Verified"
    THEN [users |-> update_user_points(db.users, user_id,
                                       verification_result.suggested_points, TRUE),
          quests |-> update_quest_status(db.quests, quest_id, "Completed")]
    ELSE db

(* the inputs of the endpoint *)
UserIds  == {"user_ada", "user_bayo"}
QuestIds == {"quest_park", "quest_tutor"}

Uploads ==
    {[size |-> 2048, magic |-> Some("image/png"), extension |-> "png"],
     [size |-> 10485760, magic |-> None, extension |-> "jpg"],
     [size |-> 10485761, magic |-> Some("image/jpeg"), extension |-> "jpg"],
     [size |-> 0, magic |-> Some("image/png"), extension |-> "png"],
     [size |-> 2048, magic |-> Some("application/pdf"), extension |-> "png"],
     [size |-> 2048, magic |-> None, extension |-> "txt"]}

ProofResponses ==
    {[kind |-> "raises"],
     [kind |-> "text", eval |-> Raise("SystemExit")]}
    \cup {[kind |-> "text",
           eval |-> Ok(VisionDict(Some(JNum(o[1])), Some(o[2]), Some("The image shows the work."),
                                  Some(o[3]), None))] :
             o \in {<<90, "Verified", 50>>, <<90, "Rejected", 50>>,
                    <<20, "Verified", 250>>, <<50, "Unclear", 10>>}}

(* the most requests of a behaviour of the model *)
MaxRequests == 2

(* the most update_user_points calls of a behaviour of the model *)
MaxPointUpdates == 4

(* the most reverse_geocode calls of a behaviour of the model *)
MaxGeocodeCalls == 3

(* ------------------------------------------------------------------------ *)
(* State                                                                      *)

VARIABLES
    gmaps,               \* LocationService.gmaps: TRUE when the Maps client exists
    geocode_cache,       \* the lru_cache of reverse_geocode_cached
    pc,                  \* where the generate_quest call stands
    coordinates,         \* its arguments
    resolution_category,
    nearby_places,       \* its locals
    ranked_places,
    offered_places,      \* the places its prompt lists
    selected_index,
    quest_data,          \* None, or Some(what json.loads made of the primary response)
    traditional_data,    \* None, or Some(what json.loads made of the traditional response)
    location_name,       \* None, or Some(what reverse_geocode returned to the traditional path)
    place_queries,       \* the places_nearby calls of this generate_quest call
    generative_calls,    \* its generate_content calls
    result,              \* what it returned: None or Some(dict)
    raised,              \* TRUE when an exception left it
    discovery,           \* how place discovery went: "raised", "empty", "found"
    primary,             \* how the call of STEP 5 went
    traditional,         \* how the call of _generate_quest_traditional went
    tier,                \* which path produced the result
    image_readable,      \* verify_quest_proof: whether open(image_path) succeeds
    vision_response,     \* what its generate_content call does
    verification,        \* what it returned: None or Some(dict)
    verification_raised, \* None, or Some(the exception that left it)
    vision_calls,        \* its generate_content calls
    scored_place,        \* calculate_place_quality_score: its argument
    quality_score,       \* what it returned: None or Some(float)
    users,               \* the users table
    quests,              \* the quests table
    quest_submissions,   \* the quest_submissions table, in order of insertion
    uploaded_files,      \* the number of files under uploads/
    requests,            \* the number of verify-quest-proof requests so far
    request,             \* the last one: None or Some([user_id, quest_id, image])
    verification_result, \* its verification_result: None or Some(dict)
    http_response,       \* its response: None or Some([status, body])
    geocode_log,         \* the reverse_geocode calls on one LocationService, in order
    lookups,             \* the reverse_geocode calls running at the same time, by request
    search_category,     \* find_nearby_places: its arguments
    search_max_results,
    search_queries,      \* what its places_nearby calls do, in order
    searched_types,      \* the types it searched, in order
    all_places,          \* its local all_places after the loop
    search_outcome,      \* None, or Some(Ok(the places returned) or the exception)
    evaluator,           \* the metric whose score() is called, by name
    judge_response,      \* what its generate_content call does
    score_result,        \* None, or Some(Ok(the ScoreResult) or the exception)
    point_updates,       \* the number of update_user_points calls so far
    claims,              \* the claim-quest requests in progress, by user
    quest_op,            \* the last claim, status-update or toggle-public request
    awards,              \* the awards of verify-proof requests in progress, by request
    appropriateness_response, \* evaluate_quest: what the second judging call does
    evaluation           \* evaluate_quest: None, or Some(the response or the HTTP error)

request_vars ==
    <<pc, coordinates, resolution_category, nearby_places, ranked_places, offered_places,
      selected_index, quest_data, traditional_data, location_name, place_queries,
      generative_calls, result, raised, discovery, primary, traditional, tier>>

generate_vars == <<gmaps, geocode_cache, request_vars>>

vision_vars ==
    <<image_readable, vision_response, verification, verification_raised, vision_calls>>

score_vars == <<scored_place, quality_score>>

endpoint_vars ==
    <<users, quests, quest_submissions, uploaded_files, requests, request,
      verification_result, http_response>>

geocode_vars == <<geocode_log, lookups>>

search_vars ==
    <<search_category, search_max_results, search_queries, searched_types, all_places,
      search_outcome>>

evaluate_vars == <<evaluator, judge_response, score_result>>

handler_vars ==
    <<point_updates, claims, quest_op, awards, appropriateness_response, evaluation>>

other_vars == <<geocode_vars, search_vars, evaluate_vars, handler_vars>>

vars ==
    <<generate_vars, vision_vars, score_vars, endpoint_vars, geocode_vars, search_vars,
      evaluate_vars, handler_vars>>

(* no call of generate_quest was made *)
RequestIdle ==
    /\ pc = "idle"
    /\ coordinates = None
    /\ resolution_category = None
    /\ nearby_places = <<>>
    /\ ranked_places = <<>>
    /\ offered_places = <<>>
    /\ selected_index = None
    /\ quest_data = None
    /\ traditional_data = None
    /\ location_name = None
    /\ place_queries = 0
    /\ generative_calls = 0
    /\ result = None
    /\ raised = FALSE
    /\ discovery = "none"
    /\ primary = "none"
    /\ traditional = "none"
    /\ tier = "none"

(* the parts of the state a specification leaves alone *)
GenerateIdle ==
    /\ gmaps = TRUE
    /\ geocode_cache = <<>>
    /\ RequestIdle

VisionIdle ==
    /\ image_readable = TRUE
    /\ vision_response = [kind |-> "raises"]
    /\ verification = None
    /\ verification_raised = None
    /\ vision_calls = 0

ScoreIdle ==
    /\ scored_place = None
    /\ quality_score = None

EndpointIdle ==
    /\ users = <<>>
    /\ quests = <<>>
    /\ quest_submissions = <<>>
    /\ uploaded_files = 0
    /\ requests = 0
    /\ request = None
    /\ verification_result = None
    /\ http_response = None

GeocodeIdle == geocode_log = <<>> /\ lookups = <<>>

SearchIdle ==
    /\ search_category = "Environment"
    /\ search_max_results = 0
    /\ search_queries = <<>>
    /\ searched_types = <<>>
    /\ all_places = <<>>
    /\ search_outcome = None

EvaluateIdle ==
    /\ evaluator = "safety_evaluator"
    /\ judge_response = [kind |-> "raises"]
    /\ score_result = None

(* no other request handler of main.py has run *)
HandlersIdle ==
    /\ point_updates = 0
    /\ claims = <<>>
    /\ quest_op = None
    /\ awards = <<>>
    /\ appropriateness_response = [kind |-> "raises"]
    /\ evaluation = None

(* the parts of the state that belong to no call of generate_quest,
   verify_quest_proof, calculate_place_quality_score or the endpoint *)
OthersIdle == GeocodeIdle /\ SearchIdle /\ EvaluateIdle /\ HandlersIdle

(* ------------------------------------------------------------------------ *)
(* CommunityArchitect.generate_quest, one step per call of a service          *)

(* the service after construction, with or without a Maps API key *)
InitGenerate ==
    /\ gmaps \in BOOLEAN
    /\ geocode_cache = <<>>
    /\ RequestIdle
    /\ VisionIdle
    /\ ScoreIdle
    /\ EndpointIdle
    /\ OthersIdle

(* generate_quest(coordinates, resolution_category) is called *)
GenerateQuest(coords, category) ==
    /\ pc \in {"idle", "returned"}
    /\ pc' = "discover"
    /\ coordinates' = Some(coords)
    /\ resolution_category' = Some(category)
    /\ nearby_places' = <<>>
    /\ ranked_places' = <<>>
    /\ offered_places' = <<>>
    /\ selected_index' = None
    /\ quest_data' = None
    /\ traditional_data' = None
    /\ location_name' = None
    /\ place_queries' = 0
    /\ generative_calls' = 0
    /\ result' = None
    /\ raised' = FALSE
    /\ discovery' = "none"
    /\ primary' = "none"
    /\ traditional' = "none"
    /\ tier' = "none"
    /\ UNCHANGED <<gmaps, geocode_cache>>
    /\ UNCHANGED <<vision_vars, score_vars, endpoint_vars, other_vars>>

(* STEP 1 to 3: find_nearby_places, whose type queries do q1 and q2, then the
   ranking of what it found *)
FindNearbyPlaces(q1, q2) ==
    /\ pc = "discover"
    /\ LET found == find_nearby_places(gmaps, resolution_category[1], SearchRadius,
                                       MaxCandidates, <<q1, q2>>)
           places == IF found.raised THEN <<>> ELSE found.value
       IN  /\ nearby_places' = places
           /\ discovery' = IF found.raised THEN "raised"
                           ELSE IF Len(places) = 0 THEN "empty" ELSE "found"
           /\ ranked_places' = IF Len(places) = 0 THEN <<>> ELSE ranked_by_quality(places)
           /\ pc' = IF Len(places) = 0 THEN "traditional" ELSE "primary"
    /\ place_queries' = place_queries + place_queries_issued(gmaps, resolution_category[1])
    /\ UNCHANGED <<gmaps, geocode_cache, coordinates, resolution_category, offered_places,
                   selected_index, quest_data, traditional_data, location_name,
                   generative_calls, result, raised, primary, traditional, tier>>
    /\ UNCHANGED <<vision_vars, score_vars, endpoint_vars, other_vars>>

(* where generate_quest goes after its primary try block: the except clause
   calls _generate_quest_traditional, once *)
after_primary_retried(failed) == IF failed THEN "primary" ELSE "returned"

after_primary(failed) == IF failed THEN "traditional" ELSE "returned"

(* the cache after the try block of _generate_quest_traditional, whose
   reverse_geocode call comes after the quest was built: named_cache is the
   cache that call leaves *)
cache_after_traditional_geocoded_first(failed, cache, named_cache) == named_cache

cache_after_traditional(failed, cache, named_cache) == IF failed THEN cache ELSE named_cache

(* STEP 4 to 7: the generative call over the top places and what follows it *)
GenerateFromPlaces(response) ==
    /\ pc = "primary"
    /\ LET outcome == real_place_outcome(ranked_places, response, resolution_category[1])
       IN  /\ primary' = response_kind(response, outcome)
           /\ generative_calls' = generative_calls + 1
           /\ offered_places' = Take(ranked_places, PlacesOffered)
           /\ quest_data' = IF response.kind = "text" THEN response.data ELSE None
           /\ selected_index' =
                 IF response.kind = "text" /\ response.data # None
                    /\ selected_location_index(response.data[1]).type = "int"
                 THEN Some(bounds_check(selected_location_index(response.data[1]).int,
                                        ranked_places))
                 ELSE None
           /\ IF outcome.raised
              THEN UNCHANGED <<result, tier>>
              ELSE /\ result' = Some(outcome.value)
                   /\ tier' = "real_place"
           /\ pc' = after_primary(outcome.raised)
    /\ UNCHANGED <<gmaps, geocode_cache, coordinates, resolution_category, nearby_places,
                   ranked_places, traditional_data, location_name, place_queries, raised,
                   discovery, traditional>>
    /\ UNCHANGED <<vision_vars, score_vars, endpoint_vars, other_vars>>

(* _generate_quest_traditional: the generative call, the reverse geocode whose
   geocoding call does geo, and the hardcoded quest when the try block raises *)
GenerateTraditional(response, geo) ==
    /\ pc = "traditional"
    /\ pc' = "returned"
    /\ LET quest == traditional_quest(response, coordinates[1], resolution_category[1])
           named == reverse_geocode(geocode_cache, gmaps, coordinates[1][1],
                                    coordinates[1][2], geo)
       IN  /\ traditional' = response_kind(response, quest)
           /\ generative_calls' = generative_calls + 1
           /\ traditional_data' = IF response.kind = "text" THEN response.data ELSE None
           /\ location_name' = IF quest.raised \/ named[1].raised THEN None
                                ELSE Some(named[1].value)
           /\ geocode_cache' = cache_after_traditional(quest.raised, geocode_cache, named[2])
           /\ IF ~quest.raised /\ ~named[1].raised
              THEN /\ result' = Some(traditional_result(quest.value, named[1].value))
                   /\ tier' = "traditional"
                   /\ UNCHANGED raised
              ELSE LET fallback_quest == _generate_fallback_quest(coordinates[1],
                                                                 resolution_category[1])
                   IN  IF fallback_quest.raised
                       THEN /\ raised' = TRUE
                            /\ UNCHANGED <<result, tier>>
                       ELSE /\ result' = Some(fallback_result(fallback_quest.value))
                            /\ tier' = "hardcoded"
                            /\ UNCHANGED raised
    /\ UNCHANGED <<gmaps, coordinates, resolution_category, nearby_places, ranked_places,
                   offered_places, selected_index, quest_data, place_queries, discovery,
                   primary>>
    /\ UNCHANGED <<vision_vars, score_vars, endpoint_vars, other_vars>>

NextGenerate ==
    \/ \E coords \in Centers, category \in ResolutionCategory :
          GenerateQuest(coords, category)
    \/ \E q1 \in QueryOutcomes(FirstTypeCatalog), q2 \in QueryOutcomes(SecondTypeCatalog) :
          FindNearbyPlaces(q1, q2)
    \/ \E response \in GenerativeResponses : GenerateFromPlaces(response)
    \/ \E response \in TraditionalResponses, geo \in GeocodeOutcomes :
          GenerateTraditional(response, geo)

SpecGenerate == InitGenerate /\ [][NextGenerate]_vars

(* ------------------------------------------------------------------------ *)
(* verify_quest_proof as a function of what its environment does              *)

InitVision ==
    /\ image_readable \in BOOLEAN
    /\ vision_response \in VisionResponses
    /\ verification = None
    /\ verification_raised = None
    /\ vision_calls = 0
    /\ GenerateIdle
    /\ ScoreIdle
    /\ EndpointIdle
    /\ OthersIdle

VerifyQuestProof ==
    /\ verification = None /\ verification_raised = None
    /\ LET outcome == verify_quest_proof(image_readable, vision_response)
       IN  /\ verification' = IF outcome.raised THEN None ELSE Some(outcome.value)
           /\ verification_raised' = IF outcome.raised THEN Some(outcome.error) ELSE None
    /\ vision_calls' = vision_calls + vision_calls_made(image_readable)
    /\ UNCHANGED <<image_readable, vision_response>>
    /\ UNCHANGED <<generate_vars, score_vars, endpoint_vars, other_vars>>

NextVision == VerifyQuestProof

SpecVision == InitVision /\ [][NextVision]_vars

(* ------------------------------------------------------------------------ *)
(* calculate_place_quality_score as a function of the place                   *)

(* ratings in tenths of a star, from 0.0 to 5.0 *)
Ratings == {None} \cup {Some(r) : r \in 0..50}
RatingCounts == {0, 1, 33, 50, 99, 100, 101, 250}
Statuses == {"OPERATIONAL", "CLOSED_TEMPORARILY", "CLOSED_PERMANENTLY"}
TypeLists == {<<>>, <<"park">>, <<"restaurant", "food">>, <<"store", "hospital">>}

ScoredPlaces ==
    {[name |-> "A place", address |-> "", coordinates |-> <<7377500, 3947000>>,
      place_id |-> None, types |-> t, rating |-> r, user_ratings_total |-> n,
      business_status |-> b] :
        r \in Ratings, n \in RatingCounts, b \in Statuses, t \in TypeLists}

InitScore ==
    /\ scored_place \in {Some(p) : p \in ScoredPlaces}
    /\ quality_score = None
    /\ GenerateIdle
    /\ VisionIdle
    /\ EndpointIdle
    /\ OthersIdle

CalculatePlaceQualityScore ==
    /\ quality_score = None
    /\ quality_score' = Some(calculate_place_quality_score(scored_place[1]))
    /\ UNCHANGED scored_place
    /\ UNCHANGED <<generate_vars, vision_vars, endpoint_vars, other_vars>>

NextScore == CalculatePlaceQualityScore

SpecScore == InitScore /\ [][NextScore]_vars

(* ------------------------------------------------------------------------ *)
(* The verify-quest-proof endpoint over a database of two users and two quests *)

NewUser == [points |-> 0, completed_quests |-> 0, impact_level |-> "Novice"]

NewQuest(title, description, category) ==
    [title |-> title, description |-> description, category |-> category,
     status |-> "Active", assigned_to |-> None, completed_at |-> None]

InitEndpoint ==
    /\ users = [u \in UserIds |-> NewUser]
    /\ quests = [q \in QuestIds |->
                   IF q = "quest_park"
                   THEN NewQuest("Community Park Cleanup",
                                 "Organize a cleanup event at a local park.", "Environment")
                   ELSE NewQuest("Free Tutoring Sessions",
                                 "Provide free tutoring to local students.", "Education")]
    /\ quest_submissions = <<>>
    /\ uploaded_files = 0
    /\ requests = 0
    /\ request = None
    /\ verification_result = None
    /\ http_response = None
    /\ GenerateIdle
    /\ VisionIdle
    /\ ScoreIdle
    /\ OthersIdle

HttpError(status) == Some([status |-> status, body |-> None])

(* The handler for current_user, quest_id and the uploaded image: saved says
   whether save_upload_file writes the file, response what the vision service
   does. *)
VerifyQuestProofEndpoint(current_user, quest_id, image, saved, response) ==
    /\ requests < MaxRequests
    /\ requests' = requests + 1
    /\ request' = Some([user_id |-> current_user, quest_id |-> quest_id, image |-> image])
    /\ LET valid == validate_image_file(image)
       IN  IF valid.raised
           THEN /\ http_response' = HttpError(valid.error)
                /\ verification_result' = None
                /\ UNCHANGED <<users, quests, quest_submissions, uploaded_files, vision_calls>>
           ELSE IF quest_id \notin DOMAIN quests
           THEN /\ http_response' = HttpError("HTTP_404")
                /\ verification_result' = None
                /\ UNCHANGED <<users, quests, quest_submissions, uploaded_files, vision_calls>>
           ELSE IF ~saved
           THEN /\ http_response' = HttpError("HTTP_500")
                /\ verification_result' = None
                /\ UNCHANGED <<users, quests, quest_submissions, uploaded_files, vision_calls>>
           ELSE LET outcome == verify_quest_proof(TRUE, response)
                IN  /\ uploaded_files' = uploaded_files + 1
                    /\ vision_calls' = vision_calls + vision_calls_made(TRUE)
                    /\ IF outcome.raised
                       THEN /\ http_response' = HttpError(outcome.error)
                            /\ verification_result' = None
                            /\ UNCHANGED <<users, quests, quest_submissions>>
                       ELSE LET submission ==
                                  create_submission(quest_id, current_user, uploaded_files + 1,
                                                    "We did it.",
                                                    outcome.value.confidence_score,
                                                    outcome.value.verification_result,
                                                    outcome.value.reasoning,
                                                    outcome.value.suggested_points)
                                db == award_if_verified([users |-> users, quests |-> quests],
                                                        current_user, quest_id, outcome.value)
                            IN  /\ verification_result' = Some(outcome.value)
                                /\ quest_submissions' = Append(quest_submissions, submission)
                                /\ users' = db.users
                                /\ quests' = db.quests
                                /\ http_response' =
                                      Some([status |-> "HTTP_200",
                                            body |-> Some([submission |-> submission,
                                                           key_observations |->
                                                             outcome.value.key_observations])])
    /\ UNCHANGED <<image_readable, vision_response, verification, verification_raised>>
    /\ UNCHANGED <<generate_vars, score_vars, other_vars>>

NextEndpoint ==
    \E current_user \in UserIds, quest_id \in QuestIds \cup {"quest_gone"},
       image \in Uploads, saved \in BOOLEAN, response \in ProofResponses :
        VerifyQuestProofEndpoint(current_user, quest_id, image, saved, response)

SpecEndpoint == InitEndpoint /\ [][NextEndpoint]_vars

(* ------------------------------------------------------------------------ *)
(* reverse_geocode, called again and again on one LocationService             *)

InitGeocode ==
    /\ gmaps \in BOOLEAN
    /\ geocode_cache = <<>>
    /\ geocode_log = <<>>
    /\ lookups = <<>>
    /\ RequestIdle
    /\ VisionIdle
    /\ ScoreIdle
    /\ EndpointIdle
    /\ SearchIdle
    /\ EvaluateIdle
    /\ HandlersIdle

(* reverse_geocode(lat, lng), the geocoding call doing geo if it is made *)
ReverseGeocode(lat, lng, geo) ==
    /\ Len(geocode_log) < MaxGeocodeCalls
    /\ LET r == reverse_geocode(geocode_cache, gmaps, lat, lng, geo)
       IN  /\ geocode_cache' = r[2]
           /\ geocode_log' = Append(geocode_log,
                                    [lat |-> lat, lng |-> lng, geo |-> geo,
                                     called |-> r[3], outcome |-> r[1]])
    /\ UNCHANGED <<gmaps, lookups, request_vars>>
    /\ UNCHANGED <<vision_vars, score_vars, endpoint_vars, search_vars, evaluate_vars,
                   handler_vars>>

NextGeocode == \E point \in GeocodePoints, geo \in GeocodeCalls :
                  ReverseGeocode(point[1], point[2], geo)

SpecGeocode == InitGeocode /\ [][NextGeocode]_vars

(* ------------------------------------------------------------------------ *)
(* reverse_geocode on a LocationService whose cache is about to be full       *)

(* the cache after n lookups of n rounded coordinates north of the equator,
   (0.0001 * i, 0) being the i-th, each named by the service *)
Filled(n) == [i \in 1..n |-> [key |-> <<100 * i, 0>>, value |-> Some("Ibadan")]]

(* the lookups made before those of the log: one short of the capacity *)
PriorLookups == Filled(CacheMaxSize - 1)

(* the coordinates looked up next: the first of the earlier ones again, which
   (0.000112, 0.000012) rounds to, and two new ones *)
CachePoints == {<<112, 12>>, <<-100, 0>>, <<-200, 0>>}

(* what the geocoding call does then: it names a neighborhood, or fails *)
CacheCalls ==
    {g \in GeocodeOutcomes :
        \/ g.kind = "ApiError"
        \/ (Len(g.results) > 0 /\ Len(g.results[1].address_components) > 1)}

InitCache ==
    /\ gmaps = TRUE
    /\ geocode_cache = PriorLookups
    /\ geocode_log = <<>>
    /\ lookups = <<>>
    /\ RequestIdle
    /\ VisionIdle
    /\ ScoreIdle
    /\ EndpointIdle
    /\ SearchIdle
    /\ EvaluateIdle
    /\ HandlersIdle

NextCache == \E point \in CachePoints, geo \in CacheCalls :
                ReverseGeocode(point[1], point[2], geo)

SpecCache == InitCache /\ [][NextCache]_vars

(* ------------------------------------------------------------------------ *)
(* two reverse_geocode calls for one rounded coordinate at the same time: the *)
(* steps of the lru_cache wrapper, which holds its lock while it reads or     *)
(* writes the cache and releases it while reverse_geocode_cached runs         *)

Requests == {1, 2}

(* the caches the two calls can meet: empty, holding the key already, one
   entry short of full, full *)
RaceCaches ==
    {<<>>, <<[key |-> <<7377500, 3947000>>, value |-> None]>>,
     Filled(CacheMaxSize - 1), Filled(CacheMaxSize)}

InitRace ==
    /\ gmaps \in BOOLEAN
    /\ geocode_cache \in RaceCaches
    /\ geocode_log = <<>>
    /\ lookups \in [Requests -> {[pc |-> "lookup", point |-> p, geo |-> g, found |-> None,
                                   returned |-> None, calls |-> 0]
                                  : p \in Centers, g \in CacheCalls \cup {[kind |-> "Timeout"]}}]
    /\ RequestIdle
    /\ VisionIdle
    /\ ScoreIdle
    /\ EndpointIdle
    /\ SearchIdle
    /\ EvaluateIdle
    /\ HandlersIdle

LookupKey(r) == <<Round4(lookups[r].point[1]), Round4(lookups[r].point[2])>>

(* the wrapper looks the key up: a hit returns the cached value *)
CacheLookup(r) ==
    /\ lookups[r].pc = "lookup"
    /\ LET i == CacheIndex(geocode_cache, LookupKey(r))
       IN  IF i > 0
           THEN /\ geocode_cache' = CacheHit(geocode_cache, i)
                /\ lookups' = [lookups EXCEPT ![r].pc = "done",
                                               ![r].returned = Some(Ok(geocode_cache[i].value))]
           ELSE /\ lookups' = [lookups EXCEPT ![r].pc = "call"]
                /\ UNCHANGED geocode_cache
    /\ UNCHANGED <<gmaps, geocode_log, request_vars>>
    /\ UNCHANGED <<vision_vars, score_vars, endpoint_vars, search_vars, evaluate_vars,
                   handler_vars>>

(* a miss: reverse_geocode_cached runs, with its geocoding call *)
CachedCall(r) ==
    /\ lookups[r].pc = "call"
    /\ lookups' = [lookups EXCEPT
                      ![r].pc = "store",
                      ![r].found = Some(reverse_geocode_cached(gmaps, lookups[r].geo)),
                      ![r].calls = lookups[r].calls + IF gmaps THEN 1 ELSE 0]
    /\ UNCHANGED <<gmaps, geocode_cache, geocode_log, request_vars>>
    /\ UNCHANGED <<vision_vars, score_vars, endpoint_vars, search_vars, evaluate_vars,
                   handler_vars>>

(* the wrapper stores what the function returned, and returns it *)
CacheStore(r) ==
    /\ lookups[r].pc = "store"
    /\ geocode_cache' = IF lookups[r].found[1].raised THEN geocode_cache
                        ELSE lru_store(geocode_cache, LookupKey(r),
                                       lookups[r].found[1].value)
    /\ lookups' = [lookups EXCEPT ![r].pc = "done", ![r].returned = lookups[r].found]
    /\ UNCHANGED <<gmaps, geocode_log, request_vars>>
    /\ UNCHANGED <<vision_vars, score_vars, endpoint_vars, search_vars, evaluate_vars,
                   handler_vars>>

NextRace == \E r \in Requests : CacheLookup(r) \/ CachedCall(r) \/ CacheStore(r)

SpecRace == InitRace /\ [][NextRace]_vars

(* ------------------------------------------------------------------------ *)
(* find_nearby_places as a function of its arguments and of what the places   *)
(* service does                                                               *)

InitSearch ==
    /\ gmaps \in BOOLEAN
    /\ search_category \in SearchCategories
    /\ search_max_results \in MaxResultsValues
    /\ search_queries \in {<<q1, q2>> : q1 \in QueryOutcomes(FirstTypeCatalog),
                                       q2 \in QueryOutcomes(SecondTypeCatalog)}
    /\ searched_types = <<>>
    /\ all_places = <<>>
    /\ search_outcome = None
    /\ geocode_cache = <<>>
    /\ RequestIdle
    /\ VisionIdle
    /\ ScoreIdle
    /\ EndpointIdle
    /\ GeocodeIdle
    /\ EvaluateIdle
    /\ HandlersIdle

FindPlaces ==
    /\ search_outcome = None
    /\ search_outcome' = Some(find_nearby_places(gmaps, search_category, SearchRadius,
                                                 search_max_results, search_queries))
    /\ searched_types' = IF gmaps THEN place_types_searched(search_category) ELSE <<>>
    /\ all_places' = IF gmaps THEN collected_places(search_category, search_queries) ELSE <<>>
    /\ UNCHANGED <<search_category, search_max_results, search_queries>>
    /\ UNCHANGED <<generate_vars, vision_vars, score_vars, endpoint_vars, geocode_vars,
                   evaluate_vars, handler_vars>>

NextSearch == FindPlaces

SpecSearch == InitSearch /\ [][NextSearch]_vars

(* ------------------------------------------------------------------------ *)
(* the score method of a metric as a function of what the judge does          *)

InitEvaluate ==
    /\ evaluator \in Evaluators
    /\ judge_response \in JudgeResponses
    /\ score_result = None
    /\ GenerateIdle
    /\ VisionIdle
    /\ ScoreIdle
    /\ EndpointIdle
    /\ GeocodeIdle
    /\ SearchIdle
    /\ HandlersIdle

Score ==
    /\ score_result = None
    /\ score_result' = Some(IF evaluator = "safety_evaluator"
                            THEN SafetyEvaluator_score(evaluator, judge_response)
                            ELSE AppropriatenessEvaluator_score(evaluator, judge_response))
    /\ UNCHANGED <<evaluator, judge_response>>
    /\ UNCHANGED <<generate_vars, vision_vars, score_vars, endpoint_vars, geocode_vars,
                   search_vars, handler_vars>>

NextEvaluate == Score

SpecEvaluate == InitEvaluate /\ [][NextEvaluate]_vars

(* ------------------------------------------------------------------------ *)
(* The calls of the external services: generate_quest requests and a          *)
(* verify_quest_proof request, over a few outcomes of each service            *)

CallsQueries ==
    {<<q1, q2>> :
       q1 \in {[kind |-> "ApiError"],
               [kind |-> "response", status |-> "ZERO_RESULTS", results |-> <<>>],
               [kind |-> "response", status |-> "OK", results |-> FirstTypeCatalog]},
       q2 \in {[kind |-> "Timeout"],
               [kind |-> "response", status |-> "OK", results |-> <<DugbeMarket>>],
               [kind |-> "response", status |-> "OK", results |-> <<OutOfRangePlace>>]}}

CallsResponses ==
    {[kind |-> "raises"], [kind |-> "text", data |-> None],
     [kind |-> "text", data |-> Some(GoodData(Some(JInt(0)), "Hard"))],
     [kind |-> "text", data |-> Some(GoodData(Some(JInt(1)), "Extreme"))],
     [kind |-> "text", data |-> Some(GoodData(None, "Easy"))]}

CallsVisionResponses ==
    {[kind |-> "raises"],
     [kind |-> "text", eval |-> Raise("SyntaxError")],
     [kind |-> "text", eval |-> Raise("SystemExit")],
     [kind |-> "text",
      eval |-> Ok(VisionDict(Some(JNum(90)), Some("Verified"), Some("Fine."), Some(50), None))]}

InitCalls ==
    /\ gmaps \in BOOLEAN
    /\ image_readable \in BOOLEAN
    /\ vision_response \in CallsVisionResponses
    /\ verification = None
    /\ verification_raised = None
    /\ vision_calls = 0
    /\ geocode_cache = <<>>
    /\ RequestIdle
    /\ ScoreIdle
    /\ EndpointIdle
    /\ OthersIdle

NextCalls ==
    \/ \E category \in {"Environment", "Social"} : GenerateQuest(<<7377512, 3947012>>, category)
    \/ \E q \in CallsQueries : FindNearbyPlaces(q[1], q[2])
    \/ \E response \in CallsResponses : GenerateFromPlaces(response)
    \/ \E response \in CallsResponses,
            geo \in {[kind |-> "ApiError"], [kind |-> "results", results |-> <<>>]} :
          GenerateTraditional(response, geo)
    \/ VerifyQuestProof

SpecCalls == InitCalls /\ [][NextCalls]_vars

(* Every call of a service returns or fails in the end, so a request that
   waits for one goes on: the step after the place search, after each of the
   two generative calls and after the vision call is taken at last. Nothing
   says that a new request is ever made. *)
FairCalls ==
    /\ WF_vars(\E q \in CallsQueries : FindNearbyPlaces(q[1], q[2]))
    /\ WF_vars(\E response \in CallsResponses : GenerateFromPlaces(response))
    /\ WF_vars(\E response \in CallsResponses,
                   geo \in {[kind |-> "ApiError"], [kind |-> "results", results |-> <<>>]} :
                  GenerateTraditional(response, geo))
    /\ WF_vars(VerifyQuestProof)

SpecCallsFair == SpecCalls /\ FairCalls

(* ------------------------------------------------------------------------ *)
(* Properties of generate_quest                                               *)

(* a value ImpactQuest accepts *)
IsQuest(q) ==
    /\ Len(q.title) >= TitleMinLength /\ Len(q.title) <= TitleMaxLength
    /\ Len(q.description) >= DescriptionMinLength
    /\ q.difficulty \in Difficulty
    /\ ValidCoordinates(q.location)
    /\ q.category \in ResolutionCategory

(* the degraded tiers: no real place was used *)
NoRealPlace ==
    /\ result # None
    /\ tier \in {"traditional", "hardcoded"}
    /\ result[1].quest.location = coordinates[1]
    /\ result[1].place_id = None
    /\ result[1].location_address = ""

(* C1: generate_quest never raises to its caller: whatever place discovery, the
   primary generative call and the traditional generative call did, the call
   has returned an outcome that holds a quest of the requested category. *)
C1_NeverRaises ==
    pc = "returned" =>
        /\ ~raised
        /\ result # None
        /\ IsQuest(result[1].quest)
        /\ result[1].quest.category = resolution_category[1]

(* places were found, the primary response violated the schema and the
   traditional response could not be parsed: the call returned all the same *)
C1_Witness ==
    /\ pc = "returned" /\ result # None
    /\ discovery = "found" /\ primary = "invalid" /\ traditional = "unparsable"

(* C2: whenever generate_quest finishes on the real-place path, the location of
   the quest is the coordinates of the selected place, and the location name,
   the address and the place id returned are those of that same place. *)
C2_LocationOfSelectedPlace ==
    tier = "real_place" =>
        /\ selected_index # None
        /\ result[1].quest.location = ranked_places[selected_index[1] + 1].coordinates
        /\ result[1].location_name = ranked_places[selected_index[1] + 1].name
        /\ result[1].location_address = ranked_places[selected_index[1] + 1].address
        /\ result[1].place_id = ranked_places[selected_index[1] + 1].place_id

(* the second-ranked place was selected, and it is not at the search center *)
C2_Witness ==
    /\ tier = "real_place" /\ selected_index = Some(1)
    /\ result[1].quest.location # coordinates[1]
    /\ result[1].location_name # ranked_places[1].name

(* C3: the place selected on the real-place path is one of the places offered
   to the generative service, the top PlacesOffered of the ranking: an index
   above the last offered place selects the last offered place, and no place
   ranked below the offered ones is selected. *)
C3_SelectedAmongOffered ==
    tier = "real_place" =>
        selected_index[1] <= Len(Take(ranked_places, PlacesOffered)) - 1

(* C4: when place discovery returns nothing or raises, generate_quest still
   returns a quest through a degraded tier, located at the input coordinates,
   with no place id and an empty address. *)
C4_EmptyDiscoveryDegrades ==
    (pc = "returned" /\ discovery \in {"empty", "raised"}) => NoRealPlace

(* discovery found nothing and the traditional generation answered *)
C4_Witness ==
    /\ pc = "returned" /\ discovery = "empty" /\ tier = "traditional"
    /\ result[1].quest.location = coordinates[1]

(* C5: when places were found but the primary generative call raises or its
   response cannot be parsed, the outcome comes from _generate_quest_traditional:
   it is located at the search coordinates, with no place id and an empty
   address, whatever places had been found. *)
C5_PrimaryFailureDegrades ==
    (pc = "returned" /\ discovery = "found" /\ primary \in {"raised", "unparsable"})
        => NoRealPlace

(* several places were found, the primary response could not be parsed and the
   traditional generation answered *)
C5_Witness ==
    /\ pc = "returned" /\ Len(ranked_places) >= 2 /\ primary = "unparsable"
    /\ tier = "traditional" /\ result[1].place_id = None

(* C6: the hardcoded quest is returned only when the traditional generation
   failed, and it is then the template of the requested category, of Medium
   difficulty, located at the input coordinates. *)
C6_HardcodedOnlyAfterFailure ==
    tier = "hardcoded" =>
        /\ traditional \in {"raised", "unparsable", "invalid"}
        /\ result[1].quest.title = fallback_quests[resolution_category[1]].title
        /\ result[1].quest.description = fallback_quests[resolution_category[1]].description
        /\ result[1].quest.impact_metric = fallback_quests[resolution_category[1]].impact_metric
        /\ result[1].quest.category = resolution_category[1]
        /\ result[1].quest.difficulty = "Medium"
        /\ result[1].quest.location = coordinates[1]

(* the Health template was returned after places were found and both
   generative calls failed *)
C6_Witness ==
    /\ tier = "hardcoded" /\ resolution_category = Some("Health")
    /\ discovery = "found" /\ primary = "raised" /\ traditional = "invalid"

(* the parsed primary response lacks a field the schema requires, or its
   difficulty is none of Easy, Medium, Hard *)
NonConformant(data) ==
    \/ data.selected_location_index = None
    \/ data.title = None
    \/ data.description = None
    \/ data.difficulty = None
    \/ data.impact_metric = None
    \/ data.difficulty[1] \notin Difficulty

(* C16: a primary response that does not conform to the schema, a required
   field (selected_location_index, title, description, difficulty,
   impact_metric) missing or the difficulty outside Easy, Medium, Hard, never
   gives a real-place outcome: the request goes on in the traditional
   generation. *)
C16_NonConformantNotUsed ==
    (quest_data # None /\ NonConformant(quest_data[1])) =>
        /\ tier # "real_place"
        /\ primary = "invalid"
        /\ pc = "traditional" \/ traditional # "none"

(* the places of the model whose reported coordinates are out of range *)
OutOfRangePlaces ==
    {p \in {FirstTypeCatalog[i] : i \in 1..Len(FirstTypeCatalog)}
            \cup {SecondTypeCatalog[i] : i \in 1..Len(SecondTypeCatalog)} :
       /\ p.geometry # None
       /\ p.geometry[1].location # None
       /\ ~(/\ p.geometry[1].location[1][1] >= -90000000
             /\ p.geometry[1].location[1][1] <= 90000000
             /\ p.geometry[1].location[1][2] >= -180000000
             /\ p.geometry[1].location[1][2] <= 180000000)}

(* coordinates brought into range *)
Clamped(c) ==
    <<Max(-90000000, Min(c[1], 90000000)), Max(-180000000, Min(c[2], 180000000))>>

(* C20: every quest generate_quest returns is located at a latitude in
   [-90, 90] and a longitude in [-180, 180]; a place reported at coordinates
   out of range is never the place of the quest, neither at the coordinates
   reported nor at these brought into range. *)
C20_QuestLocationValid ==
    result # None =>
        /\ result[1].quest.location[1] >= -90000000
        /\ result[1].quest.location[1] <= 90000000
        /\ result[1].quest.location[2] >= -180000000
        /\ result[1].quest.location[2] <= 180000000
        /\ \A p \in OutOfRangePlaces :
              /\ result[1].quest.location # p.geometry[1].location[1]
              /\ result[1].quest.location # Clamped(p.geometry[1].location[1])
              /\ result[1].place_id # p.place_id

(* discovery met a place at latitude 91 and raised; the quest returned is at
   the search coordinates *)
C20_Witness ==
    /\ pc = "returned" /\ result # None
    /\ OutOfRangePlaces # {}
    /\ discovery = "raised"
    /\ result[1].quest.location = coordinates[1]

(* ------------------------------------------------------------------------ *)
(* Properties of the calls of the external services                           *)

(* C19, as stated: one generate_quest request makes at most 2 place-search
   queries and at most 1 call of the generative service, and one
   verify_quest_proof request at most 1 call of the vision service, on every
   path. *)
C19_OneGenerativeCall ==
    /\ place_queries <= 2
    /\ generative_calls <= 1
    /\ vision_calls <= 1

(* C19, amended: one generate_quest request makes at most 2 place-search
   queries and at most 2 calls of the generative service, one on the primary
   path and one in the traditional generation: 1 when it returns a real-place
   quest or found no place, 2 only when places were found and the primary path
   failed; one verify_quest_proof request makes at most 1 call of the vision
   service. *)
C19_CallsBounded ==
    /\ place_queries <= 2
    /\ generative_calls <= 2
    /\ tier = "real_place" => generative_calls = 1
    /\ (pc = "returned" /\ discovery \in {"empty", "raised"}) => generative_calls = 1
    /\ generative_calls = 2 =>
          /\ discovery = "found"
          /\ primary \in {"raised", "unparsable", "invalid"}
          /\ tier \in {"traditional", "hardcoded"}
    /\ vision_calls <= 1

(* a request that searched two types, failed on the primary path and was
   answered by the traditional generation, and a verification that called the
   vision service *)
C19_Witness ==
    /\ pc = "returned" /\ tier = "traditional"
    /\ place_queries = 2 /\ generative_calls = 2
    /\ verification # None /\ vision_calls = 1

(* ------------------------------------------------------------------------ *)
(* Properties of verify_quest_proof                                           *)

(* the call is over *)
VerificationOver == verification # None \/ verification_raised # None

(* the file was read and the response is a dict that holds the four required
   fields, the confidence a number *)
ResponseUsable ==
    /\ image_readable
    /\ vision_response.kind = "text"
    /\ ~vision_response.eval.raised
    /\ vision_response.eval.value.type = "dict"
    /\ vision_response.eval.value.confidence_score # None
    /\ vision_response.eval.value.confidence_score[1].type = "num"
    /\ vision_response.eval.value.verification_result # None
    /\ vision_response.eval.value.reasoning # None
    /\ vision_response.eval.value.suggested_points # None

(* the threshold policy, on hundredths *)
PolicyVerdict(confidence) ==
    IF confidence > 70 THEN "Verified"
    ELSE IF confidence >= 30 THEN "Unclear"
    ELSE "Rejected"

(* C7, as stated: every outcome verify_quest_proof returns has the verdict its
   confidence gives through the threshold policy (above 0.7 Verified, from 0.3
   to 0.7 Unclear, below 0.3 Rejected), whatever the service reported. *)
C7_VerdictFollowsPolicy ==
    verification # None =>
        verification[1].verification_result = PolicyVerdict(verification[1].confidence_score)

(* C7, amended: an outcome returned for a usable response carries the
   confidence and the verdict the service reported, unchanged, so its verdict
   follows the threshold policy exactly when the verdict of the service does;
   any other outcome has confidence 0.0 and verdict Unclear. *)
C7_VerdictAsReported ==
    verification # None =>
        IF ResponseUsable
        THEN /\ verification[1].confidence_score =
                  vision_response.eval.value.confidence_score[1].hundredths
             /\ verification[1].verification_result =
                  vision_response.eval.value.verification_result[1]
             /\ (verification[1].verification_result
                    = PolicyVerdict(verification[1].confidence_score))
                 <=> (vision_response.eval.value.verification_result[1]
                        = PolicyVerdict(vision_response.eval.value.confidence_score[1].hundredths))
        ELSE /\ verification[1].confidence_score = 0
             /\ verification[1].verification_result = "Unclear"

(* the service reported confidence 0.71 with the verdict Rejected, and that is
   what was returned *)
C7_Witness ==
    /\ verification # None /\ ResponseUsable
    /\ verification[1].confidence_score = 71
    /\ verification[1].verification_result = "Rejected"

(* C8: verify_quest_proof never raises: when the file cannot be read, the
   call of the service fails or the response is malformed, it returns
   confidence 0.0, verdict Unclear, 0 points and no observations. *)
C8_NeverRaises ==
    VerificationOver =>
        /\ verification_raised = None
        /\ ~ResponseUsable =>
              /\ verification[1].confidence_score = 0
              /\ verification[1].verification_result = "Unclear"
              /\ verification[1].suggested_points = 0
              /\ verification[1].key_observations = <<>>

(* C18: every outcome verify_quest_proof returns has a confidence in [0, 1], a
   verdict among Verified, Unclear and Rejected, and suggested points from 0 to
   100, whatever the response of the vision service carries. *)
C18_OutcomeInRange ==
    verification # None =>
        /\ verification[1].confidence_score >= 0
        /\ verification[1].confidence_score <= 100
        /\ verification[1].verification_result \in {"Verified", "Unclear", "Rejected"}
        /\ verification[1].suggested_points >= 0
        /\ verification[1].suggested_points <= 100

(* ------------------------------------------------------------------------ *)
(* Properties of calculate_place_quality_score                                *)

HasHighValueType(place) ==
    \E i \in 1..Len(place.types) : InSeq(place.types[i], high_value_types)

(* C10: for every place with rating absent or from 0 to 5, a rating count of 0
   or more, any status and any type tags, the score is in [0,1]; it is exactly
   1.0 for rating 5.0, 100 reviews or more, Operational status and a high-value
   tag, and exactly 0.0 for no rating, no reviews, a status that is not
   Operational and no high-value tag. *)
C10_ScoreRangeAndExtremes ==
    quality_score # None =>
        /\ FCmp(FZero, quality_score[1]) <= 0
        /\ FCmp(quality_score[1], FOne) <= 0
        /\ (/\ scored_place[1].rating = Some(50)
             /\ scored_place[1].user_ratings_total >= ReviewsCap
             /\ scored_place[1].business_status = "OPERATIONAL"
             /\ HasHighValueType(scored_place[1]))
            => quality_score[1] = FOne
        /\ (/\ scored_place[1].rating = None
             /\ scored_place[1].user_ratings_total = 0
             /\ scored_place[1].business_status # "OPERATIONAL"
             /\ ~HasHighValueType(scored_place[1]))
            => quality_score[1] = FZero

(* ------------------------------------------------------------------------ *)
(* Properties of the verify-quest-proof endpoint                              *)

(* the verdict of the last request is Verified *)
Verified(v) == v # None /\ v[1].verification_result = "Verified"

(* C9: after any verify-proof request, the points and the completed-quest count
   of the submitting user change if and only if the verdict of the outcome is
   Verified, and then by exactly the suggested points and by one; the quest
   becomes Completed if and only if the verdict is Verified; nothing else in
   the two tables changes, so a high confidence with another verdict awards
   nothing. *)
C9_AwardIffVerified ==
    [][requests' # requests =>
         IF Verified(verification_result')
         THEN /\ users' = [users EXCEPT
                    ![request'[1].user_id] =
                       [@ EXCEPT !.points = @ + verification_result'[1].suggested_points,
                                 !.completed_quests = @ + 1,
                                 !.impact_level = users'[request'[1].user_id].impact_level]]
              /\ quests'[request'[1].quest_id].status = "Completed"
              /\ \A q \in DOMAIN quests \ {request'[1].quest_id} : quests'[q] = quests[q]
         ELSE /\ users' = users
              /\ quests' = quests]_vars

(* a user was awarded 50 points for a Verified proof, then sent a proof judged
   Rejected with confidence 0.9 and was awarded nothing more *)
C9_Witness ==
    /\ Len(quest_submissions) = 2
    /\ quest_submissions[1].user_id = quest_submissions[2].user_id
    /\ quest_submissions[1].verification_result = "Verified"
    /\ quest_submissions[2].verification_result = "Rejected"
    /\ quest_submissions[2].confidence_score = 90
    /\ users[quest_submissions[1].user_id].points = 50
    /\ users[quest_submissions[1].user_id].completed_quests = 1
    /\ quests[quest_submissions[1].quest_id].status = "Completed"
    /\ quests[quest_submissions[2].quest_id].status = "Active"

(* ------------------------------------------------------------------------ *)
(* Properties of reverse_geocode                                              *)

(* calls i and j of the log have coordinates that round to the same 4 decimals *)
SameRounded(i, j) ==
    /\ Round4(geocode_log[i].lat) = Round4(geocode_log[j].lat)
    /\ Round4(geocode_log[i].lng) = Round4(geocode_log[j].lng)

(* C11: of the reverse_geocode calls on one LocationService whose coordinates
   round to the same 4-decimal pair, only the first calls the geocoding
   service, and every later one returns what the first returned without an
   external call (no entry is evicted within the calls of the model). *)
C11_SameRoundedSameEntry ==
    \A j \in 1..Len(geocode_log) :
       IF \E i \in 1..(j - 1) : SameRounded(i, j)
       THEN /\ ~geocode_log[j].called
            /\ \A i \in 1..(j - 1) :
                  SameRounded(i, j) => geocode_log[j].outcome = geocode_log[i].outcome
       ELSE geocode_log[j].called = gmaps

(* (7.377512, 3.947012) was geocoded to Bodija, and (7.3775, 3.9470) then got
   Bodija with no call, although the service would have failed *)
C11_Witness ==
    /\ Len(geocode_log) >= 2
    /\ geocode_log[1].lat = 7377512 /\ geocode_log[2].lat = 7377500
    /\ geocode_log[1].called /\ ~geocode_log[2].called
    /\ geocode_log[1].outcome = Ok(Some("Bodija"))
    /\ geocode_log[2].geo.kind = "ApiError"
    /\ geocode_log[2].outcome = Ok(Some("Bodija"))

(* C12: reverse_geocode never raises, and a call that finds no client, or whose
   geocoding call raises or returns an empty list of results, returns None. *)
C12_GeocodeNeverRaises ==
    \A j \in 1..Len(geocode_log) :
       /\ ~geocode_log[j].outcome.raised
       /\ ~gmaps => geocode_log[j].outcome = Ok(None)
       /\ (/\ geocode_log[j].called
            /\ \/ geocode_log[j].geo.kind # "results"
               \/ Len(geocode_log[j].geo.results) = 0)
           => geocode_log[j].outcome = Ok(None)

(* one geocoding call timed out and another returned no results: both calls of
   reverse_geocode returned None *)
C12_Witness ==
    /\ gmaps
    /\ \E i, j \in 1..Len(geocode_log) :
          /\ geocode_log[i].called /\ geocode_log[i].geo.kind = "Timeout"
          /\ geocode_log[i].outcome = Ok(None)
          /\ geocode_log[j].called /\ geocode_log[j].geo = [kind |-> "results", results |-> <<>>]
          /\ geocode_log[j].outcome = Ok(None)

(* ------------------------------------------------------------------------ *)
(* Properties of find_nearby_places                                           *)

(* a raw place with a geometry, a location in it and coordinates in range *)
WellFormedPlace(p) ==
    /\ p.geometry # None
    /\ p.geometry[1].location # None
    /\ ValidCoordinates(p.geometry[1].location[1])

PlaceIds(places) == [i \in 1..Len(places) |-> places[i].place_id]

(* the raw entries that are formatted: the first max_results of all_places *)
Candidates == Take(all_places, search_max_results)

(* C13: find_nearby_places never raises because of a bad raw place entry,
   whether its geometry is missing, the location is missing in the geometry or
   the coordinates are out of range: the places returned are the well-formed
   ones among the entries formatted, in their order. *)
C13_BadEntryDropped ==
    search_outcome # None =>
        /\ ~search_outcome[1].raised
        /\ PlaceIds(search_outcome[1].value) = PlaceIds(SelectSeq(Candidates, WellFormedPlace))

(* the type query failed: it raised, or its status is not OK *)
QueryFailed(q) == q.kind # "response" \/ q.status # "OK"

(* what the i-th type query must contribute to all_places *)
Contribution(i) ==
    IF i > Len(searched_types) \/ QueryFailed(search_queries[i]) THEN <<>>
    ELSE Take(search_queries[i].results, 3)

(* C14: a type query that raises or returns a status other than OK contributes
   nothing, and the other type query still contributes its results, whichever
   of the two comes first; when every type query fails the method returns an
   empty sequence and does not raise. *)
C14_QueryFailuresIsolated ==
    (search_outcome # None /\ gmaps) =>
        /\ all_places = Contribution(1) \o Contribution(2)
        /\ (\A i \in 1..Len(searched_types) : QueryFailed(search_queries[i]))
              => search_outcome[1] = Ok(<<>>)

(* the first type query raised and the places of the second were returned *)
C14_Witness ==
    /\ search_outcome # None /\ gmaps
    /\ Len(searched_types) = 2
    /\ search_queries[1].kind = "Timeout"
    /\ ~QueryFailed(search_queries[2])
    /\ ~search_outcome[1].raised
    /\ Len(search_outcome[1].value) = 2
    /\ search_outcome[1].value[1].place_id = Some("pid_dugbe")

InCatalog(place_id, catalog) == \E i \in 1..Len(catalog) : catalog[i].place_id = place_id

(* C15: find_nearby_places queries the first two types of the category, in
   their order, and no other; it keeps at most 3 results of each query and
   formats the first max_results of their concatenation, so it returns at most
   min(max_results, 6) places, those of the first type before those of the
   second, all of them among the first max_results raw entries: a malformed
   entry among these is not replaced by a later one. *)
C15_SearchBounded ==
    search_outcome # None =>
        /\ Len(searched_types) <= 2
        /\ gmaps => searched_types =
               (IF search_category \in DOMAIN CATEGORY_PLACE_TYPES
                THEN SubSeq(CATEGORY_PLACE_TYPES[search_category], 1, 2)
                ELSE <<"point_of_interest">>)
        /\ Cardinality({i \in 1..Len(all_places) :
                           InCatalog(all_places[i].place_id, FirstTypeCatalog)}) <= 3
        /\ Cardinality({i \in 1..Len(all_places) :
                           InCatalog(all_places[i].place_id, SecondTypeCatalog)}) <= 3
        /\ ~search_outcome[1].raised =>
              /\ Len(search_outcome[1].value) <= Min(search_max_results, 6)
              /\ \A i, j \in 1..Len(search_outcome[1].value) :
                    (/\ InCatalog(search_outcome[1].value[i].place_id, SecondTypeCatalog)
                     /\ InCatalog(search_outcome[1].value[j].place_id, FirstTypeCatalog))
                    => j < i
              /\ PlaceIds(search_outcome[1].value)
                    = PlaceIds(SelectSeq(Candidates, WellFormedPlace))

(* six places were collected and five asked for; the fifth has no geometry, so
   four are returned and the sixth, which is well-formed, is not among them *)
C15_Witness ==
    /\ search_outcome # None /\ ~search_outcome[1].raised
    /\ Len(all_places) = 6 /\ search_max_results = 5
    /\ ~WellFormedPlace(all_places[5]) /\ WellFormedPlace(all_places[6])
    /\ Len(search_outcome[1].value) = 4

(* ------------------------------------------------------------------------ *)
(* Properties of the evaluators                                               *)

(* the judge answered a dict that holds a numeric score and a reason *)
JudgeSucceeded ==
    /\ judge_response.kind = "text"
    /\ judge_response.data # None
    /\ judge_response.data[1].type = "dict"
    /\ judge_response.data[1].score # None
    /\ judge_response.data[1].score[1].type = "num"
    /\ judge_response.data[1].reason # None

(* the score of the judge, in hundredths *)
JudgeScore == judge_response.data[1].score[1].hundredths

(* C17: neither score method raises. When the judging call fails (it raises,
   its text cannot be parsed, the score is missing), SafetyEvaluator.score
   returns 0.8 and AppropriatenessEvaluator.score returns 0.85, with a reason
   that is not empty; when it succeeds each returns the score of the judge
   divided by 100, so a whole score s gives the float s / 100 and 0 to 100
   lands in [0, 1]. *)
C17_JudgeFailureDefaults ==
    score_result # None =>
        /\ ~score_result[1].raised
        /\ score_result[1].value.name = evaluator
        /\ IF JudgeSucceeded
           THEN /\ score_result[1].value.reason = judge_response.data[1].reason[1]
                /\ JudgeScore % 100 = 0 =>
                      score_result[1].value.value = FDiv(FInt(JudgeScore \div 100), FInt(100))
                /\ JudgeScore <= 10000 => FCmp(score_result[1].value.value, FOne) <= 0
                /\ FCmp(score_result[1].value.value, FInt(JudgeScore \div 10000 + 1)) <= 0
                /\ FCmp(FDiv(FInt(JudgeScore \div 100), FInt(100)),
                        score_result[1].value.value) <= 0
           ELSE /\ score_result[1].value.value =
                      (IF evaluator = "safety_evaluator" THEN FDiv(FInt(8), FInt(10))
                       ELSE FDiv(FInt(85), FInt(100)))
                /\ Len(score_result[1].value.reason) = 2
                /\ score_result[1].value.reason[1] # ""

(* the safety judge gave no score and the result is 0.8 with a reason *)
C17_Witness ==
    /\ score_result # None /\ evaluator = "safety_evaluator"
    /\ judge_response.kind = "text" /\ judge_response.data # None
    /\ judge_response.data[1].type = "dict" /\ judge_response.data[1].score = None
    /\ score_result[1] = Ok(ScoreResult("safety_evaluator", FDiv(FInt(8), FInt(10)),
                                        <<"Evaluation failed, assuming moderately safe: ",
                                          "KeyError">>))

(* the geocoding call of entry i of the log gives no name: it raises, or it
   returns no result *)
LookupFailed(i) ==
    \/ geocode_log[i].geo.kind # "results"
    \/ Len(geocode_log[i].geo.results) = 0

(* C30: the cache keeps a null like a name. Once a lookup of a rounded
   coordinate has failed, by an error of the service, an empty answer or the
   absence of a client, every later lookup of that rounded coordinate returns
   None and makes no geocoding call, whatever the service would answer by then
   (no entry is evicted within the calls of the model). *)
C30_NullResultsCached ==
    \A i, j \in 1..Len(geocode_log) :
       (/\ i < j
        /\ SameRounded(i, j)
        /\ \A h \in 1..(i - 1) : ~SameRounded(h, i)
        /\ ~gmaps \/ LookupFailed(i))
       => /\ geocode_log[j].outcome = Ok(None)
          /\ ~geocode_log[j].called

(* the lookup of (7.377512, 3.947012) met an error of the service; the lookup
   of (7.3775, 3.9470) that followed returned None without a call, although
   the service would have named Bodija *)
C30_Witness ==
    /\ gmaps /\ Len(geocode_log) >= 2
    /\ geocode_log[1].lat = 7377512 /\ geocode_log[2].lat = 7377500
    /\ geocode_log[1].called /\ geocode_log[1].geo.kind = "ApiError"
    /\ geocode_log[2].geo.kind = "results" /\ Len(geocode_log[2].geo.results) > 0
    /\ ~geocode_log[2].called
    /\ geocode_log[2].outcome = Ok(None)

(* the rounded coordinates of entry j of the log *)
LoggedKey(j) == <<Round4(geocode_log[j].lat), Round4(geocode_log[j].lng)>>

(* when a rounded coordinate was last looked up: the number of the last call
   of the log for it, or, for a coordinate looked up only before the log, its
   number among the earlier lookups counted back from 0 *)
LastUse(key) ==
    IF \E j \in 1..Len(geocode_log) : LoggedKey(j) = key
    THEN CHOOSE j \in 1..Len(geocode_log) :
            /\ LoggedKey(j) = key
            /\ \A h \in (j + 1)..Len(geocode_log) : LoggedKey(h) # key
    ELSE (key[1] \div 100) - CacheMaxSize

(* C21: the cache never holds more than its 1000 entries nor two entries for a
   key; an entry leaves it only to make room, so the keys that left are as many
   as the keys looked up exceed the capacity; and each key that left was last
   looked up, by a hit or a miss, before every key still held. *)
C21_LeastRecentlyUsedEvicted ==
    Bind(<<{geocode_cache[i].key : i \in 1..Len(geocode_cache)},
           {PriorLookups[i].key : i \in 1..Len(PriorLookups)}
              \cup {LoggedKey(j) : j \in 1..Len(geocode_log)}>>, LAMBDA k :
      Bind(k[2] \ k[1], LAMBDA evicted :
        /\ Len(geocode_cache) <= CacheMaxSize
        /\ Cardinality(k[1]) = Len(geocode_cache)
        /\ k[1] \subseteq k[2]
        /\ Cardinality(evicted) =
              IF Cardinality(k[2]) > CacheMaxSize THEN Cardinality(k[2]) - CacheMaxSize ELSE 0
        /\ \A e \in evicted : \A held \in k[1] : LastUse(e) < LastUse(held)))

(* a new coordinate filled the cache, the oldest entry (0.0001, 0) was then
   hit, and a second new coordinate evicted (0.0002, 0), the oldest entry but
   one, while (0.0001, 0) stayed *)
C21_Witness ==
    /\ Len(geocode_log) = 3
    /\ LoggedKey(1) = <<-100, 0>> /\ geocode_log[1].called
    /\ LoggedKey(2) = <<100, 0>> /\ ~geocode_log[2].called
    /\ LoggedKey(3) = <<-200, 0>> /\ geocode_log[3].called
    /\ Len(geocode_cache) = CacheMaxSize
    /\ CacheIndex(geocode_cache, <<200, 0>>) = 0
    /\ CacheIndex(geocode_cache, <<100, 0>>) > 0

(* both calls are for one rounded coordinate, and both are over *)
SameKeyDone ==
    /\ lookups # <<>>
    /\ LookupKey(1) = LookupKey(2)
    /\ \A r \in Requests : lookups[r].pc = "done"

(* C22: however the steps of two reverse_geocode calls for one rounded
   coordinate interleave, neither makes more than one geocoding call, and once
   both are over each has returned a value (none raised), the cache holds
   exactly one entry for the key, and it holds no more than its 1000 entries. *)
C22_ConcurrentLookups ==
    lookups # <<>> =>
       /\ \A r \in Requests : lookups[r].calls <= 1
       /\ Len(geocode_cache) <= CacheMaxSize
       /\ SameKeyDone =>
             /\ \A r \in Requests : lookups[r].returned # None /\ ~lookups[r].returned[1].raised
             /\ Cardinality({i \in 1..Len(geocode_cache) :
                                geocode_cache[i].key = LookupKey(1)}) = 1

(* both calls missed a full cache and both called the geocoding service, one
   getting a name and the other an error: one entry was evicted for the key *)
C22_Witness ==
    /\ SameKeyDone
    /\ lookups[1].point # lookups[2].point
    /\ lookups[1].calls = 1 /\ lookups[2].calls = 1
    /\ lookups[1].returned # lookups[2].returned
    /\ Len(geocode_cache) = CacheMaxSize
    /\ geocode_cache[1].key = <<200, 0>>

(* C23: within one generate_quest call the tiers follow one another in a fixed
   order, each entered at most once. The real-place tier is entered only from
   discovery, when it found places; TraditionalGeneration only from a
   discovery that raised or found nothing, or from a real-place tier whose try
   block failed; and the hardcoded quest is produced only by the traditional
   path, never by a step of the real-place tier. *)
C23_TierOrder ==
    [][/\ pc' = "primary" => pc = "discover" /\ discovery' = "found"
       /\ pc' = "traditional" =>
             \/ pc = "discover" /\ discovery' \in {"raised", "empty"}
             \/ pc = "primary" /\ primary' \in {"raised", "unparsable", "invalid"}
       /\ pc = "traditional" => pc' = "returned"
       /\ pc = "primary" => tier' # "hardcoded"
       /\ tier' = "hardcoded" => pc = "traditional" /\ tier = "none"]_vars

(* a call that went through the three tiers: places were found, the response
   to the primary prompt was invalid, and so was the traditional one *)
C23_Witness ==
    /\ pc = "returned"
    /\ discovery = "found" /\ primary = "invalid"
    /\ traditional = "invalid" /\ tier = "hardcoded"
    /\ generative_calls = 2

(* the primary response was parsed, is well formed and carries an integer
   selected_location_index *)
IntegerIndexReturned ==
    /\ quest_data # None
    /\ quest_data[1] \in WellFormedData
    /\ quest_data[1].selected_location_index # None

(* C24: whatever integer index a well-formed primary response carries, negative,
   in range or too large, ClampAndConstruct neither faults nor falls back: the
   call returns a real-place quest, and the index it used lies among the
   candidates the prompt offered, a negative one having become 0. *)
C24_IndexWithinCandidates ==
    IntegerIndexReturned =>
       /\ primary = "ok" /\ tier = "real_place"
       /\ pc = "returned" /\ traditional = "none"
       /\ selected_index # None
       /\ selected_index[1] \in 0..(Len(offered_places) - 1)
       /\ quest_data[1].selected_location_index[1].int < 0 => selected_index[1] = 0

(* how the scores of places i and j of the discovery result compare: -1, 0, 1 *)
ScoreCmp(i, j) == FCmp(quality_key(nearby_places[i]), quality_key(nearby_places[j]))

(* where place i of the discovery result belongs in descending order of score:
   behind every place of higher score and behind the places of equal score that
   discovery returned before it *)
RankOf(i) ==
    1 + Cardinality({j \in 1..Len(nearby_places) :
                       \/ ScoreCmp(j, i) > 0
                       \/ (ScoreCmp(j, i) = 0 /\ j < i)})

(* C25: when the ranking is done, the ranked list is the discovery result in
   descending order of quality score, places of equal score in the order
   discovery returned them, so a result that is in descending order already
   stays as it is; and the prompt offers the first three places of the ranked
   list. *)
C25_OfferedTopThreeStable ==
    /\ pc = "primary" =>
          /\ Len(ranked_places) = Len(nearby_places)
          /\ \A i \in 1..Len(nearby_places) : ranked_places[RankOf(i)] = nearby_places[i]
          /\ (\A i \in 1..(Len(nearby_places) - 1) : ScoreCmp(i, i + 1) >= 0)
                => ranked_places = nearby_places
    /\ primary # "none" =>
          /\ Len(offered_places) = Min(PlacesOffered, Len(ranked_places))
          /\ \A i \in 1..Len(offered_places) : offered_places[i] = ranked_places[i]

(* discovery returned Bodija Market, the unnamed place, Agodi Gardens and Dugbe
   Market; the ranking moved Agodi Gardens to the front and the unnamed place
   to the end, Bodija Market stayed before Dugbe Market, whose score is the
   same, and the first three were offered *)
C25_Witness ==
    /\ primary # "none"
    /\ Len(nearby_places) = 4
    /\ nearby_places[1].name = "Bodija Market" /\ nearby_places[4].name = "Dugbe Market"
    /\ ScoreCmp(1, 4) = 0
    /\ ranked_places # nearby_places
    /\ Len(offered_places) = 3
    /\ offered_places[2].name = "Bodija Market" /\ offered_places[3].name = "Dugbe Market"

(* C28: in the traditional generation the reverse geocode decides the label
   only. When the generative call gave a valid quest, the outcome is of the
   traditional tier and carries that quest, not the template, at the
   coordinates of the request, whatever the reverse geocode did; and when the
   reverse geocode gave no name, the label is the default one. *)
C28_GeocodeFailureNotFatal ==
    (pc = "returned" /\ traditional = "ok") =>
       /\ tier = "traditional" /\ ~raised
       /\ result[1].quest.title = traditional_data[1].title[1]
       /\ result[1].quest.description = traditional_data[1].description[1]
       /\ result[1].quest.difficulty = traditional_data[1].difficulty[1]
       /\ result[1].quest.title # fallback_quests[resolution_category[1]].title
       /\ result[1].quest.location = coordinates[1]
       /\ location_name # None
       /\ location_name[1] = None => result[1].location_name = DefaultLocationName
       /\ location_name[1] # None => result[1].location_name = location_name[1][1]

(* the traditional response was valid, the lookup of the coordinates gave no
   name and left a null in the cache, and the outcome is the generated quest
   under the default label *)
C28_Witness ==
    /\ pc = "returned" /\ traditional = "ok" /\ tier = "traditional"
    /\ gmaps
    /\ location_name = Some(None)
    /\ Len(geocode_cache) = 1 /\ geocode_cache[1].value = None
    /\ result[1].location_name = DefaultLocationName
    /\ result[1].quest.title = GoodTitle

(* C29: a step changes the geocode cache only when it is the traditional
   generation whose generative call gave a valid quest, the one place where
   generate_quest calls reverse_geocode. Discovery with its ranking, a call
   that returns a real-place quest, a traditional generation whose generative
   call failed and that returns the hardcoded quest, and verify_quest_proof
   leave the cache as it was. *)
C29_CacheChangedByGeocodeOnly ==
    [][/\ geocode_cache' # geocode_cache =>
             pc = "traditional" /\ pc' = "returned" /\ traditional' = "ok"
       /\ pc \in {"discover", "primary"} => geocode_cache' = geocode_cache
       /\ (pc = "traditional" /\ pc' = "returned" /\ traditional' # "ok") =>
             tier' = "hardcoded" /\ geocode_cache' = geocode_cache
       /\ vision_calls' # vision_calls \/ verification' # verification =>
             geocode_cache' = geocode_cache]_vars

(* a traditional generation cached the answer for the request coordinates; a
   later call found places and returned a real-place quest and a verification
   ran, and the cache still holds that one entry *)
C29_Witness ==
    /\ Len(geocode_cache) = 1
    /\ geocode_cache[1].key = <<7377500, 3947000>>
    /\ pc = "returned" /\ tier = "real_place" /\ traditional = "none"
    /\ place_queries = 2
    /\ verification # None

(* the reference weighted sum of a place in thousandths, each term clamped
   before it is weighted: 0.40 x rating / 5 is 8 per tenth of a star, 0.30 x
   min(count, 100) / 100 is 3 per review up to 100, 0.20 is 200 and 0.10 is
   100; the total is capped at 1000 *)
ReferenceThousandths(place) ==
    Min(1000,
        (IF place.rating = None THEN 0 ELSE 8 * Min(place.rating[1], 50))
        + 3 * Min(place.user_ratings_total, ReviewsCap)
        + (IF place.business_status = "OPERATIONAL" THEN 200 ELSE 0)
        + (IF HasHighValueType(place) THEN 100 ELSE 0))

(* C26: for every place of the input set the score calculate_place_quality_score
   returns is the reference weighted sum, as the float nearest to it. *)
C26_ScoreIsWeightedSum ==
    quality_score # None =>
        quality_score[1] = FDiv(FInt(ReferenceThousandths(scored_place[1])), FInt(1000))

(* C27: every request ends with a result once its service calls have returned
   or failed. A generate_quest call that was made returns an outcome of one of
   the three tiers, real place, traditional or hardcoded, and the
   verify_quest_proof call returns a verification. *)
C27_RequestsTerminate ==
    /\ (pc = "discover") ~>
          (/\ pc = "returned" /\ ~raised /\ result # None
           /\ tier \in {"real_place", "traditional", "hardcoded"})
    /\ <>(verification # None)


(* ------------------------------------------------------------------------ *)
(* Properties of the verify-quest-proof endpoint: what a submission records    *)

(* the step is the verify-proof request of a user for a quest *)
ProofRequested == requests' # requests

(* C31: the points_awarded stored on a submission is the number of points the
   submission added to the total of its user, and it is 0 for every submission
   whose verdict is not Verified. *)
C31_PointsAwardedAsAdded ==
    [][(ProofRequested /\ Len(quest_submissions') = Len(quest_submissions) + 1) =>
         LET submission == quest_submissions'[Len(quest_submissions')]
         IN  /\ submission.points_awarded =
                   users'[submission.user_id].points - users[submission.user_id].points
             /\ submission.verification_result # "Verified"
                   => submission.points_awarded = 0]_vars

(* C32: a quest is rewarded at most once: a verify-proof request for a quest
   that a Verified submission has marked Completed adds no points and no
   completed quest, for the same or another user. *)
C32_RewardedAtMostOnce ==
    [][(/\ ProofRequested
        /\ request'[1].quest_id \in DOMAIN quests
        /\ quests[request'[1].quest_id].status = "Completed") =>
         \A u \in DOMAIN users :
            /\ users'[u].points = users[u].points
            /\ users'[u].completed_quests = users[u].completed_quests]_vars

(* the upload is too large, empty, or of no allowed type: by its detected type,
   or by its extension when no type was detected *)
TooLarge(file) == file.size > 10 * 1024 * 1024
Empty(file) == file.size = 0
TypeUnknown(file) ==
    file.magic = None /\ file.extension \notin {"jpg", "jpeg", "png", "webp", "gif"}
TypeDisallowed(file) ==
    file.magic # None
    /\ file.magic[1] \notin {"image/jpeg", "image/jpg", "image/png", "image/webp", "image/gif"}
ImageInvalid(file) == TooLarge(file) \/ Empty(file) \/ TypeUnknown(file) \/ TypeDisallowed(file)

(* C37: a verify-proof request rejected for an invalid image (too large, empty
   or of a disallowed type) or for a quest that does not exist leaves all state
   as it was: no file saved, no call of the vision service, no submission, no
   points, the quests as before; the image is validated before the quest is
   looked up, so an invalid image is answered with its own error also for a
   missing quest, and the quest is looked up before the file is saved, so a
   missing quest is answered with 404 also when the file could not be saved. *)
C37_RejectedRequestChangesNothing ==
    [][(/\ ProofRequested
        /\ \/ ImageInvalid(request'[1].image)
           \/ request'[1].quest_id \notin DOMAIN quests) =>
         /\ uploaded_files' = uploaded_files
         /\ vision_calls' = vision_calls
         /\ quest_submissions' = quest_submissions
         /\ users' = users
         /\ quests' = quests
         /\ verification_result' = None
         /\ http_response'[1].body = None
         /\ http_response'[1].status =
               IF TooLarge(request'[1].image) THEN "HTTP_413"
               ELSE IF Empty(request'[1].image) \/ TypeUnknown(request'[1].image) THEN "HTTP_400"
               ELSE IF TypeDisallowed(request'[1].image) THEN "HTTP_415"
               ELSE "HTTP_404"]_vars

(* after a request that was verified and awarded, a request with an empty file
   for a quest that does not exist was answered 400, with the one file, the one
   call, the one submission and the 50 points of the first request *)
C37_Witness ==
    /\ requests = 2
    /\ request[1].image.size = 0
    /\ request[1].quest_id \notin DOMAIN quests
    /\ http_response = HttpError("HTTP_400")
    /\ uploaded_files = 1
    /\ vision_calls = 1
    /\ Len(quest_submissions) = 1
    /\ users[request[1].user_id].points = 50


(* ------------------------------------------------------------------------ *)
(* crud.update_user_points, called again and again on the users table         *)

PointAmounts == {-300, 1, 199, 300, 500}

InitPoints ==
    /\ users = [u \in UserIds |-> NewUser]
    /\ quests = <<>>
    /\ quest_submissions = <<>>
    /\ uploaded_files = 0
    /\ requests = 0
    /\ request = None
    /\ verification_result = None
    /\ http_response = None
    /\ GenerateIdle
    /\ VisionIdle
    /\ ScoreIdle
    /\ OthersIdle

UpdateUserPoints(user_id, points_to_add, increment_quests) ==
    /\ point_updates < MaxPointUpdates
    /\ point_updates' = point_updates + 1
    /\ users' = update_user_points(users, user_id, points_to_add, increment_quests)
    /\ UNCHANGED <<quests, quest_submissions, uploaded_files, requests, request,
                   verification_result, http_response>>
    /\ UNCHANGED <<claims, quest_op, awards, appropriateness_response, evaluation>>
    /\ UNCHANGED <<generate_vars, vision_vars, score_vars, geocode_vars, search_vars,
                   evaluate_vars>>

NextPoints ==
    \E user_id \in UserIds \cup {"user_gone"}, points_to_add \in PointAmounts,
       increment_quests \in BOOLEAN :
        UpdateUserPoints(user_id, points_to_add, increment_quests)

SpecPoints == InitPoints /\ [][NextPoints]_vars

(* C36: in every state reached by update_user_points calls from new users with
   0 points, the impact_level of a user is the tier of their points: Legend
   from 1000 points, Hero for 500 to 999, Rising Star for 200 to 499, Novice
   below 200. *)
C36_ImpactLevelIsTier ==
    \A u \in DOMAIN users :
        /\ users[u].points >= 1000 => users[u].impact_level = "Legend"
        /\ users[u].points \in 500..999 => users[u].impact_level = "Hero"
        /\ users[u].points \in 200..499 => users[u].impact_level = "Rising Star"
        /\ users[u].points < 200 => users[u].impact_level = "Novice"

(* after four calls one user has exactly 1000 points and is a Legend, and the
   other has exactly 200 points and is a Rising Star *)
C36_Witness ==
    /\ point_updates = MaxPointUpdates
    /\ \E u, v \in DOMAIN users :
          /\ users[u].points = 1000 /\ users[u].impact_level = "Legend"
          /\ users[v].points = 200 /\ users[v].impact_level = "Rising Star"


(* ------------------------------------------------------------------------ *)
(* POST /api/evaluate-quest (main.py): both metrics on one quest               *)

PassThreshold == FTenths(7)

(* the dict returned from the two ScoreResults *)
evaluation_report_either(safety_score, appropriateness_score) ==
    [evaluations |->
       [safety |-> [score |-> safety_score.value, reason |-> safety_score.reason],
        appropriateness |-> [score |-> appropriateness_score.value,
                             reason |-> appropriateness_score.reason]],
     overall_score |-> FDiv(FAdd(safety_score.value, appropriateness_score.value), FInt(2)),
     passed |-> \/ FCmp(safety_score.value, PassThreshold) >= 0
                \/ FCmp(appropriateness_score.value, PassThreshold) >= 0]

evaluation_report(safety_score, appropriateness_score) ==
    [evaluations |->
       [safety |-> [score |-> safety_score.value, reason |-> safety_score.reason],
        appropriateness |-> [score |-> appropriateness_score.value,
                             reason |-> appropriateness_score.reason]],
     overall_score |-> FDiv(FAdd(safety_score.value, appropriateness_score.value), FInt(2)),
     passed |-> /\ FCmp(safety_score.value, PassThreshold) >= 0
                /\ FCmp(appropriateness_score.value, PassThreshold) >= 0]

(* evaluate_quest for what the two judging calls do: Ok(the dict returned) or
   the exception that leaves the handler, an Exception as HTTP 500 *)
evaluate_quest(safety_response, second_response) ==
    Bind(SafetyEvaluator_score("safety_evaluator", safety_response), LAMBDA safety_score :
      IF safety_score.raised
      THEN IF safety_score.error \in BaseExceptionsOnly THEN safety_score
           ELSE Raise("HTTP_500")
      ELSE Bind(AppropriatenessEvaluator_score("appropriateness_evaluator", second_response),
                LAMBDA appropriateness_score :
             IF appropriateness_score.raised
             THEN IF appropriateness_score.error \in BaseExceptionsOnly
                  THEN appropriateness_score
                  ELSE Raise("HTTP_500")
             ELSE Ok(evaluation_report(safety_score.value, appropriateness_score.value))))

(* what a judging call does: it fails in four ways (no response, no JSON, a
   score that is no number, no reason), or answers with a score from 0 to 100 *)
QuestJudgeScores == {0, 6900, 6999, 7000, 7100, 8500, 10000}

QuestJudgeResponses ==
    {[kind |-> "raises"], [kind |-> "text", data |-> None],
     [kind |-> "text", data |-> Some(JudgeDict(Some(JStr("85")), Some("Respectful.")))],
     [kind |-> "text", data |-> Some(JudgeDict(Some(JNum(8500)), None))]}
    \cup {[kind |-> "text", data |-> Some(JudgeDict(Some(JNum(h)), Some("Fine.")))] :
             h \in QuestJudgeScores}

InitEvaluateQuest ==
    /\ judge_response \in QuestJudgeResponses
    /\ appropriateness_response \in QuestJudgeResponses
    /\ evaluation = None
    /\ evaluator = "safety_evaluator"
    /\ score_result = None
    /\ point_updates = 0
    /\ claims = <<>>
    /\ quest_op = None
    /\ awards = <<>>
    /\ GenerateIdle
    /\ VisionIdle
    /\ ScoreIdle
    /\ EndpointIdle
    /\ GeocodeIdle
    /\ SearchIdle

EvaluateQuest ==
    /\ evaluation = None
    /\ evaluation' = Some(evaluate_quest(judge_response, appropriateness_response))
    /\ UNCHANGED <<judge_response, appropriateness_response, evaluator, score_result>>
    /\ UNCHANGED <<point_updates, claims, quest_op, awards>>
    /\ UNCHANGED <<generate_vars, vision_vars, score_vars, endpoint_vars, geocode_vars,
                   search_vars>>

NextEvaluateQuest == EvaluateQuest

SpecEvaluateQuest == InitEvaluateQuest /\ [][NextEvaluateQuest]_vars

(* ------------------------------------------------------------------------ *)
(* Properties of evaluate_quest                                               *)

(* the judging call failed: no response, a text that is no JSON object, or an
   object without a numeric score or without a reason *)
JudgingFailed(response) ==
    \/ response.kind = "raises"
    \/ response.data = None
    \/ response.data[1].type # "dict"
    \/ response.data[1].score = None
    \/ response.data[1].score[1].type # "num"
    \/ response.data[1].reason = None

(* the float nearest to the mean of the floats x and y *)
MeanOf(x, y) ==
    LET e == Min(x[2], y[2])
    IN  FRound(BAdd(BShl(x[1], x[2] - e), BShl(y[1], y[2] - e)), e - 1)

AtLeastThreshold(x) == FCmp(x, FDiv(FInt(7), FInt(10))) >= 0

(* C38: evaluate_quest reports passed exactly when the safety value and the
   appropriateness value it reports are both at least 0.7, and overall_score is
   their mean; when both judging calls fail the quest is passed with overall
   score 0.825, and when only one fails the result depends on the other
   evaluator alone: the quest is passed exactly when the value of the other is
   at least 0.7. *)
C38_PassedIffBothAtLeastThreshold ==
    evaluation # None =>
        /\ ~evaluation[1].raised
        /\ LET report == evaluation[1].value
               safety == report.evaluations.safety.score
               appropriateness == report.evaluations.appropriateness.score
           IN  /\ report.passed = (AtLeastThreshold(safety) /\ AtLeastThreshold(appropriateness))
               /\ report.overall_score = MeanOf(safety, appropriateness)
               /\ (JudgingFailed(judge_response) /\ JudgingFailed(appropriateness_response))
                     => /\ report.passed
                        /\ report.overall_score = FDiv(FInt(825), FInt(1000))
               /\ (JudgingFailed(judge_response) /\ ~JudgingFailed(appropriateness_response))
                     => report.passed = AtLeastThreshold(appropriateness)
               /\ (~JudgingFailed(judge_response) /\ JudgingFailed(appropriateness_response))
                     => report.passed = AtLeastThreshold(safety)
               /\ ~JudgingFailed(judge_response)
                     => safety = FDiv(FDiv(FInt(judge_response.data[1].score[1].hundredths),
                                           FInt(100)), FInt(100))
               /\ ~JudgingFailed(appropriateness_response)
                     => appropriateness =
                          FDiv(FDiv(FInt(appropriateness_response.data[1].score[1].hundredths),
                                    FInt(100)), FInt(100))

(* the safety judging failed and the appropriateness judge gave 69: the quest
   is not passed *)
C38_Witness ==
    /\ evaluation # None
    /\ judge_response = [kind |-> "raises"]
    /\ ~JudgingFailed(appropriateness_response)
    /\ appropriateness_response.data[1].score[1].hundredths = 6900
    /\ ~evaluation[1].value.passed


(* ------------------------------------------------------------------------ *)
(* The quest handlers of main.py on one quest: claim (its read and its commit  *)
(* are two steps, other requests run between them), status update, toggle      *)
(* public and verify proof                                                     *)

(* the row create_quest adds for the creator, public or assigned to them *)
CreatedQuest(title, description, category, created_by, make_public) ==
    [title |-> title, description |-> description, category |-> category,
     status |-> "Active", created_by |-> created_by,
     assigned_to |-> IF make_public THEN None ELSE Some(created_by),
     completed_at |-> None]

(* a user without a claim request in progress; otherwise the request holds the
   quest object it loaded, and rival_claimed says that a claim of another user
   for the same quest has reported success since *)
NoClaim == [pc |-> "idle", quest_id |-> None, loaded |-> None, rival_claimed |-> FALSE]

ValidUpload == [size |-> 2048, magic |-> Some("image/png"), extension |-> "png"]

VerifiedResponse(points) ==
    [kind |-> "text",
     eval |-> Ok(VisionDict(Some(JNum(90)), Some("Verified"), Some("The image shows the work."),
                            Some(points), None))]

StatusUpdates == {None, Some("Active"), Some("In Progress"), Some("Completed")}

InitQuests ==
    /\ users = [u \in UserIds |-> NewUser]
    /\ \E make_public \in BOOLEAN :
          quests = [q \in {"quest_park"} |->
                      CreatedQuest("Community Park Cleanup",
                                   "Organize a cleanup event at a local park.", "Environment",
                                   "user_ada", make_public)]
    /\ quest_submissions = <<>>
    /\ uploaded_files = 0
    /\ requests = 0
    /\ request = None
    /\ verification_result = None
    /\ http_response = None
    /\ claims = [u \in UserIds |-> NoClaim]
    /\ quest_op = None
    /\ point_updates = 0
    /\ awards = <<>>
    /\ appropriateness_response = [kind |-> "raises"]
    /\ evaluation = None
    /\ GenerateIdle
    /\ VisionIdle
    /\ ScoreIdle
    /\ GeocodeIdle
    /\ SearchIdle
    /\ EvaluateIdle

QuestOp(op, user_id, quest_id, status) ==
    Some([op |-> op, user_id |-> user_id, quest_id |-> quest_id, status |-> status])

(* claim_quest up to its commit: the quest is loaded and checked *)
ClaimQuest(current_user, quest_id) ==
    /\ claims[current_user].pc = "idle"
    /\ IF quest_id \notin DOMAIN quests
       THEN /\ quest_op' = QuestOp("claim", current_user, quest_id, "HTTP_404")
            /\ UNCHANGED claims
       ELSE IF quests[quest_id].assigned_to # None
       THEN /\ quest_op' = QuestOp("claim", current_user, quest_id, "HTTP_400")
            /\ UNCHANGED claims
       ELSE /\ claims' = [claims EXCEPT ![current_user] =
                            [pc |-> "loaded", quest_id |-> Some(quest_id),
                             loaded |-> Some(quests[quest_id]), rival_claimed |-> FALSE]]
            /\ UNCHANGED quest_op
    /\ UNCHANGED <<point_updates, awards, appropriateness_response, evaluation>>
    /\ UNCHANGED <<generate_vars, vision_vars, score_vars, endpoint_vars, geocode_vars,
                   search_vars, evaluate_vars>>

(* the row after the commit of a session that loaded the quest as `loaded` and
   set assigned_to and status on it: the UPDATE names the columns whose value
   differs from the loaded one *)
committed_claim(row, loaded, user_id) ==
    [row EXCEPT !.assigned_to = Some(user_id),
                !.status = IF loaded.status # "Active" THEN "Active" ELSE @]

(* claim_quest from the assignment to its response *)
ClaimCommit(current_user) ==
    /\ claims[current_user].pc = "loaded"
    /\ LET quest_id == claims[current_user].quest_id[1]
       IN  /\ quests' = [quests EXCEPT ![quest_id] =
                           committed_claim(@, claims[current_user].loaded[1], current_user)]
           /\ claims' = [u \in DOMAIN claims |->
                           IF u = current_user THEN NoClaim
                           ELSE IF claims[u].quest_id = Some(quest_id)
                           THEN [claims[u] EXCEPT !.rival_claimed = TRUE]
                           ELSE claims[u]]
           /\ quest_op' = QuestOp("claim", current_user, quest_id, "HTTP_200")
    /\ UNCHANGED <<users, quest_submissions, uploaded_files, requests, request,
                   verification_result, http_response>>
    /\ UNCHANGED <<point_updates, awards, appropriateness_response, evaluation>>
    /\ UNCHANGED <<generate_vars, vision_vars, score_vars, geocode_vars, search_vars,
                   evaluate_vars>>

(* PUT /api/quests/{quest_id}/status *)
UpdateQuestStatus(current_user, quest_id, new_status) ==
    /\ IF new_status = None
       THEN /\ quest_op' = QuestOp("status", current_user, quest_id, "HTTP_422")
            /\ UNCHANGED quests
       ELSE IF quest_id \notin DOMAIN quests
       THEN /\ quest_op' = QuestOp("status", current_user, quest_id, "HTTP_404")
            /\ UNCHANGED quests
       ELSE /\ quests' = update_quest_status_assigned(quests, quest_id, new_status[1],
                                                      Some(current_user))
            /\ quest_op' = QuestOp("status", current_user, quest_id, "HTTP_200")
    /\ UNCHANGED <<users, quest_submissions, uploaded_files, requests, request,
                   verification_result, http_response>>
    /\ UNCHANGED <<point_updates, claims, awards, appropriateness_response, evaluation>>
    /\ UNCHANGED <<generate_vars, vision_vars, score_vars, geocode_vars, search_vars,
                   evaluate_vars>>

(* POST /api/quests/{quest_id}/toggle-public *)
ToggleQuestPublic(current_user, quest_id, make_public) ==
    /\ IF quest_id \notin DOMAIN quests
       THEN /\ quest_op' = QuestOp("toggle-public", current_user, quest_id, "HTTP_404")
            /\ UNCHANGED quests
       ELSE IF quests[quest_id].created_by # current_user
       THEN /\ quest_op' = QuestOp("toggle-public", current_user, quest_id, "HTTP_403")
            /\ UNCHANGED quests
       ELSE /\ quests' = [quests EXCEPT ![quest_id] =
                            IF make_public
                            THEN [@ EXCEPT !.assigned_to = None, !.status = "Active"]
                            ELSE [@ EXCEPT !.assigned_to = Some(current_user)]]
            /\ quest_op' = QuestOp("toggle-public", current_user, quest_id, "HTTP_200")
    /\ UNCHANGED <<users, quest_submissions, uploaded_files, requests, request,
                   verification_result, http_response>>
    /\ UNCHANGED <<point_updates, claims, awards, appropriateness_response, evaluation>>
    /\ UNCHANGED <<generate_vars, vision_vars, score_vars, geocode_vars, search_vars,
                   evaluate_vars>>

NextQuests ==
    \/ \E current_user \in UserIds, quest_id \in {"quest_park", "quest_gone"} :
          \/ ClaimQuest(current_user, quest_id)
          \/ \E new_status \in StatusUpdates :
                UpdateQuestStatus(current_user, quest_id, new_status)
          \/ \E make_public \in BOOLEAN :
                ToggleQuestPublic(current_user, quest_id, make_public)
    \/ \E current_user \in UserIds : ClaimCommit(current_user)
    \/ \E current_user \in UserIds :
          VerifyQuestProofEndpoint(current_user, "quest_park", ValidUpload, TRUE,
                                   VerifiedResponse(50))

SpecQuests == InitQuests /\ [][NextQuests]_vars

(* ------------------------------------------------------------------------ *)
(* Properties of the quest handlers                                           *)

(* the step is the commit of the claim request of user u *)
ClaimCommitted(u) == claims[u].pc = "loaded" /\ claims'[u].pc = "idle"

(* C33: a quest is claimed by at most one user: a claim succeeds only on a
   quest that has no assignee when the claim is written; a claim on an assigned
   quest fails with 400 'Quest already claimed' and leaves the quest as it was;
   and of two claim requests of two users for the same quest that interleave,
   at most one reports success. *)
C33_ClaimedByAtMostOne ==
    [][/\ \A u \in DOMAIN claims :
            ClaimCommitted(u) =>
              /\ quests[claims[u].quest_id[1]].assigned_to = None
              /\ claims[u].rival_claimed => quest_op'[1].status # "HTTP_200"
       /\ \A u \in DOMAIN claims, q \in DOMAIN quests :
            (/\ quest_op' = QuestOp("claim", u, q, "HTTP_400")
             /\ quest_op' # quest_op)
              => /\ quests[q].assigned_to # None
                 /\ quests' = quests
       /\ \A u \in DOMAIN claims, q \in DOMAIN quests :
            (/\ quest_op' # quest_op
             /\ quest_op'[1].op = "claim" /\ quest_op'[1].user_id = u
             /\ quest_op'[1].quest_id = q
             /\ claims[u].pc = "idle"
             /\ quests[q].assigned_to # None)
              => quest_op'[1].status = "HTTP_400"]_vars

(* the user whose request the step is *)
Actor == IF requests' # requests THEN request'[1].user_id ELSE quest_op'[1].user_id

(* C34: once a quest is assigned to a user, no request of another user who is
   not the creator of the quest changes its assignee, be it a claim, a status
   update, a toggle-public or a verify-proof request. *)
C34_AssigneeKeptFromOthers ==
    [][\A q \in DOMAIN quests :
          (/\ quests[q].assigned_to # None
           /\ quests'[q].assigned_to # quests[q].assigned_to)
            => \/ Some(Actor) = quests[q].assigned_to
               \/ Actor = quests[q].created_by]_vars


(* ------------------------------------------------------------------------ *)
(* Two verify-proof requests of one user running at the same time: each has    *)
(* its own session, and the awaits of the handler are where the other runs     *)

AwardRequests == {1, 2}

AwardPoints == {50, 150, 200}

(* the row after the flush of a session that loaded it as `loaded` and changed
   the object to `modified`: the UPDATE names the columns that differ *)
flushed(row, loaded, modified) ==
    [c \in DOMAIN row |-> IF modified[c] # loaded[c] THEN modified[c] ELSE row[c]]

InitAwards ==
    /\ users = [u \in UserIds |-> NewUser]
    /\ quests = [q \in QuestIds |->
                   IF q = "quest_park"
                   THEN NewQuest("Community Park Cleanup",
                                 "Organize a cleanup event at a local park.", "Environment")
                   ELSE NewQuest("Free Tutoring Sessions",
                                 "Provide free tutoring to local students.", "Education")]
    /\ quest_submissions = <<>>
    /\ uploaded_files = 0
    /\ requests = 0
    /\ request = None
    /\ verification_result = None
    /\ http_response = None
    /\ \E first \in AwardPoints, second \in AwardPoints, quest_id \in QuestIds :
          awards = [r \in AwardRequests |->
                      [pc |-> "start", user_id |-> "user_ada",
                       quest_id |-> IF r = 1 THEN "quest_park" ELSE quest_id,
                       suggested_points |-> IF r = 1 THEN first ELSE second,
                       loaded |-> None]]
    /\ claims = <<>>
    /\ quest_op = None
    /\ point_updates = 0
    /\ appropriateness_response = [kind |-> "raises"]
    /\ evaluation = None
    /\ GenerateIdle
    /\ VisionIdle
    /\ ScoreIdle
    /\ GeocodeIdle
    /\ SearchIdle
    /\ EvaluateIdle

(* the handler of request r up to create_submission, the proof judged Verified *)
SubmitProof(r) ==
    /\ awards[r].pc = "start"
    /\ LET outcome == verify_quest_proof(TRUE, VerifiedResponse(awards[r].suggested_points))
       IN  /\ quest_submissions' =
                 Append(quest_submissions,
                        create_submission(awards[r].quest_id, awards[r].user_id,
                                          uploaded_files + 1, "We did it.",
                                          outcome.value.confidence_score,
                                          outcome.value.verification_result,
                                          outcome.value.reasoning,
                                          outcome.value.suggested_points))
           /\ awards' = [awards EXCEPT ![r].pc =
                            IF outcome.value.verification_result = "Verified"
                            THEN "award" ELSE "done"]
    /\ uploaded_files' = uploaded_files + 1
    /\ vision_calls' = vision_calls + vision_calls_made(TRUE)
    /\ requests' = requests + 1
    /\ UNCHANGED <<users, quests, request, verification_result, http_response>>
    /\ UNCHANGED <<point_updates, claims, quest_op, appropriateness_response, evaluation>>
    /\ UNCHANGED <<image_readable, vision_response, verification, verification_raised>>
    /\ UNCHANGED <<generate_vars, score_vars, geocode_vars, search_vars, evaluate_vars>>

(* update_user_points of request r: get_user_by_id *)
AwardLoad(r) ==
    /\ awards[r].pc = "award"
    /\ awards' = [awards EXCEPT ![r].pc = "commit",
                                ![r].loaded = Some(users[awards[r].user_id])]
    /\ UNCHANGED <<point_updates, claims, quest_op, appropriateness_response, evaluation>>
    /\ UNCHANGED <<generate_vars, vision_vars, score_vars, endpoint_vars, geocode_vars,
                   search_vars, evaluate_vars>>

(* update_user_points of request r: the changes of the object and the commit *)
AwardCommit(r) ==
    /\ awards[r].pc = "commit"
    /\ LET loaded == awards[r].loaded[1]
           modified == update_user_points(<<loaded>>, 1, awards[r].suggested_points, TRUE)[1]
       IN  users' = [users EXCEPT ![awards[r].user_id] = flushed(@, loaded, modified)]
    /\ awards' = [awards EXCEPT ![r].pc = "quest"]
    /\ UNCHANGED <<quests, quest_submissions, uploaded_files, requests, request,
                   verification_result, http_response>>
    /\ UNCHANGED <<point_updates, claims, quest_op, appropriateness_response, evaluation>>
    /\ UNCHANGED <<generate_vars, vision_vars, score_vars, geocode_vars, search_vars,
                   evaluate_vars>>

(* update_quest_status(db, quest_id, "Completed") of request r, and its response *)
AwardQuest(r) ==
    /\ awards[r].pc = "quest"
    /\ quests' = update_quest_status(quests, awards[r].quest_id, "Completed")
    /\ awards' = [awards EXCEPT ![r].pc = "done"]
    /\ UNCHANGED <<users, quest_submissions, uploaded_files, requests, request,
                   verification_result, http_response>>
    /\ UNCHANGED <<point_updates, claims, quest_op, appropriateness_response, evaluation>>
    /\ UNCHANGED <<generate_vars, vision_vars, score_vars, geocode_vars, search_vars,
                   evaluate_vars>>

NextAwards ==
    \E r \in AwardRequests :
        SubmitProof(r) \/ AwardLoad(r) \/ AwardCommit(r) \/ AwardQuest(r)

SpecAwards == InitAwards /\ [][NextAwards]_vars

(* C35: when two Verified verify-proof requests of one user are processed at
   the same time, no award is lost: once both are done, the points of the user
   are the initial points plus both suggested-point values and the count of
   completed quests has grown by two, whatever the order of the steps. *)
C35_NoAwardLost ==
    (awards # <<>> /\ \A r \in DOMAIN awards : awards[r].pc = "done") =>
        /\ users["user_ada"].points =
              NewUser.points + awards[1].suggested_points + awards[2].suggested_points
        /\ users["user_ada"].completed_quests = NewUser.completed_quests + 2

====
